---- MODULE Spec2Model ----
(***************************************************************************)
(* A model of the scraping coordinator of around_the_grounds:              *)
(* ScraperCoordinator (scrape_all, scrape_one, _scrape_brewery,            *)
(* _filter_and_sort_events, get_errors, has_errors), ScrapingError,        *)
(* ParserRegistry (get_parser, register_parser, get_supported_keys) and    *)
(* the connection cap the coordinator gives its session.                   *)
(*                                                                         *)
(* Time is counted in hours since 2025-10-31 00:00, so that the datetime   *)
(* of midnight of November d is d * 24.  A naive datetime (an event's date *)
(* or start_time) is the number of hours on the venue's wall clock; `now`  *)
(* is the UTC instant the process clock shows.                             *)
(***************************************************************************)
EXTENDS Integers, Sequences, FiniteSets, TLC

VARIABLES
    registry,      \* ParserRegistry._parsers as it is now: the entries in insertion order
    max_concurrent,\* self.max_concurrent, fixed by the constructor
    conn,          \* per task: its place at the session's connector ("idle", "waiting", "held")
    fetches,       \* per task: the requests it has made through the session so far
    max_retries,   \* self.max_retries, fixed by the constructor
    errors,        \* self.errors: sequence of ScrapingError records
    phase,         \* which coordinator call is running: "idle", "scrape_all", "scrape_one"
                   \* ("collect", "filtered" under SpecSort; "registry" under SpecRegistry;
                   \* "creating", "gathering" under SpecPool)
    breweries,     \* the argument of the running (or last) call: sequence of Brewery records
    pc,            \* per task of the call: position inside _scrape_brewery
    attempt,       \* per task: the loop variable of `for attempt in range(self.max_retries)`
    result,        \* per task: what the coroutine returned or raised
    watched,       \* history: index of the task whose parse outcomes are recorded (0: no call runs)
    hist,          \* history: outcome of every parser.parse call of the watched task, so far
                   \* (under SpecRegistry: every register_parser call made so far)
    sleeps,        \* history: argument of every asyncio.sleep call of the watched task, so far
    today,         \* environment: the calendar day in Seattle (UTC-8) when the call filters
    now,           \* environment: the UTC instant read by datetime.now(seattle_tz)
    all_events,    \* the list handed to _filter_and_sort_events
    returned,      \* what the last coordinator call returned or raised
    prior_errors   \* history: has_errors() as it was when the running (or last) call began

vars == <<registry, max_concurrent, conn, fetches, max_retries, errors, phase, breweries, pc, attempt, result, watched,
          hist, sleeps, today, now, all_events, returned, prior_errors>>

-----------------------------------------------------------------------------
(* Bounds of the model. *)

MaxSources == 2      \* longest brewery list handed to scrape_all
MaxRetries == 3      \* largest max_retries the constructor is given
MaxEvents == 3       \* longest list handed to _filter_and_sort_events under SpecSort
MaxRegistrations == 3 \* most register_parser calls made under SpecRegistry
MaxFanOut == 3       \* longest brewery list handed to scrape_all under SpecPool
MaxConcurrent == 2   \* largest max_concurrent the constructor is given under SpecPool
MaxFetches == 2      \* most requests one task makes through the session under SpecPool

-----------------------------------------------------------------------------
(* Optional values: None is the empty sequence, a present value x is <<x>>. *)

None == <<>>
Some(x) == <<x>>
Val(o) == o[1]

RECURSIVE Pow2(_)
Pow2(n) == IF n = 0 THEN 1 ELSE 2 * Pow2(n - 1)

-----------------------------------------------------------------------------
(* Datetimes. *)

\* datetime(2025, 11, d): midnight of November d.
Midnight(d) == d * 24

\* datetime.date(): the calendar day of a datetime.
DateOf(dt) == dt \div 24

\* timedelta(hours=-8), the fixed offset of seattle_tz.
seattle_tz == -8

\* timedelta(days=7)
one_week == 7

\* Variant: the wall clock of UTC is used instead of the fixed zone's.
SeattleNow_Utc(utc) == utc

\* datetime.now(seattle_tz): the wall clock in the fixed zone at UTC instant utc.
SeattleNow(utc) == utc + seattle_tz

-----------------------------------------------------------------------------
(* FoodTruckEvent and the sort of _filter_and_sort_events. *)

FoodTruckEvent(key, name, date, start_time) ==
    [brewery_key |-> key, food_truck_name |-> name, date |-> date, start_time |-> start_time]

\* Variant: an event without a start time is keyed at the end of its day.
StartOrDate_EndOfDay(x) == IF x.start_time # None THEN Val(x.start_time) ELSE x.date + 24

\* `x.start_time or x.date`: a datetime is always truthy, so `or` falls through
\* to x.date exactly when start_time is None.
StartOrDate(x) == IF x.start_time # None THEN Val(x.start_time) ELSE x.date

\* Variant: the key is the date alone.
sort_key_DateOnly(x) == <<x.date, x.date>>

\* key=lambda x: (x.date, x.start_time or x.date)
sort_key(x) == <<x.date, StartOrDate(x)>>

\* Python's tuple comparison: lexicographic.
TupleLess(a, b) == a[1] < b[1] \/ (a[1] = b[1] /\ a[2] < b[2])

\* list.sort is stable: an element goes before the first element whose key is
\* strictly greater, hence after every element with an equal key.
RECURSIVE InsertSorted(_, _)
InsertSorted(s, x) ==
    IF s = <<>> THEN <<x>>
    ELSE IF TupleLess(sort_key(x), sort_key(Head(s))) THEN <<x>> \o s
    ELSE <<Head(s)>> \o InsertSorted(Tail(s), x)

RECURSIVE SortEvents(_)
SortEvents(s) ==
    IF s = <<>> THEN <<>>
    ELSE InsertSorted(SortEvents(SubSeq(s, 1, Len(s) - 1)), s[Len(s)])

\* now.date() <= event.date.date() <= one_week_later.date()
InNextWeek(event, utc) ==
    LET seattle_now == SeattleNow(utc)
        one_week_later == seattle_now + one_week * 24
    IN  /\ DateOf(seattle_now) <= DateOf(event.date)
        /\ DateOf(event.date) <= DateOf(one_week_later)

\* Variant: the events are sorted but none is left out.
_filter_and_sort_events_NoFilter(events, utc) == SortEvents(events)

_filter_and_sort_events(events, utc) ==
    SortEvents(SelectSeq(events, LAMBDA e : InNextWeek(e, utc)))

-----------------------------------------------------------------------------
(* Brewery and ParserRegistry. *)

\* A dict is the sequence of its items in insertion order, keys all different.
Item(key, value) == [key |-> key, parser_class |-> value]

\* The dict literal of the class body.
_parsers ==
    << Item("stoup-ballard", "StoupBallardParser"),
       Item("yonder-balebreaker", "BaleBreakerParser"),
       Item("obec-brewing", "ObecBrewingParser"),
       Item("urban-family", "UrbanFamilyParser"),
       Item("wheelie-pop", "WheeliePopParser"),
       Item("chucks-greenwood", "ChucksGreenwoodParser"),
       Item("salehs-corner", "SalehsCornerParser"),
       Item("roulette", "RouletteParser"),
       Item("littlefield", "LittlefieldParser"),
       Item("union-hall", "UnionHallParser") >>

\* `key in d` and `d[key]`
HasKey(d, key) == \E k \in 1..Len(d) : d[k].key = key
GetItem(d, key) == d[CHOOSE k \in 1..Len(d) : d[k].key = key].parser_class

\* What a call returns or raises: [raised |-> None, value |-> v] or [raised |-> Some(exc)].
Returns(v) == [raised |-> None, value |-> v]
Raises(exc) == [raised |-> Some(exc)]

\* ParserRegistry.get_parser
get_parser(key) ==
    IF ~HasKey(registry, key) THEN Raises("ValueError") ELSE Returns(GetItem(registry, key))

\* Variant: cls._parsers.setdefault(key, parser_class), the first registration stays.
register_parser_KeepsFirst(d, key, parser_class) ==
    IF HasKey(d, key) THEN d ELSE Append(d, Item(key, parser_class))

\* Variant: the key is deleted and inserted again, which moves it to the end.
register_parser_MovesToEnd(d, key, parser_class) ==
    Append(SelectSeq(d, LAMBDA it : it.key # key), Item(key, parser_class))

\* ParserRegistry.register_parser: cls._parsers[key] = parser_class on the dict
\* d. Assigning to a key the dict has replaces its value where it is; a key it
\* has not is added at the end.
register_parser(d, key, parser_class) ==
    IF HasKey(d, key)
    THEN [k \in 1..Len(d) |-> IF d[k].key = key THEN Item(key, parser_class) ELSE d[k]]
    ELSE Append(d, Item(key, parser_class))

\* ParserRegistry.get_supported_keys: list(cls._parsers.keys())
get_supported_keys == [k \in 1..Len(registry) |-> registry[k].key]

\* Brewery records of the configuration: the i-th brewery of a list, with a key
\* that is registered or not.
ConfiguredKey == <<"stoup-ballard", "roulette", "littlefield", "union-hall">>
MisconfiguredKey == <<"ghost-1", "ghost-2", "ghost-3", "ghost-4">>
Brewery(i, registered) ==
    [key |-> IF registered THEN ConfiguredKey[i] ELSE MisconfiguredKey[i],
     name |-> IF registered THEN ConfiguredKey[i] ELSE MisconfiguredKey[i]]

-----------------------------------------------------------------------------
(* Exceptions and the except clauses of _scrape_brewery. *)

\* The exception classes a parser raises, with the classes each is an instance of.
ExceptionClasses ==
    {"asyncio.TimeoutError", "aiohttp.ServerTimeoutError", "aiohttp.ClientError",
     "ValueError", "RuntimeError"}

BasesOf(exc) ==
    CASE exc = "asyncio.TimeoutError" -> {"asyncio.TimeoutError", "Exception"}
      [] exc = "aiohttp.ServerTimeoutError" ->
             {"aiohttp.ServerTimeoutError", "aiohttp.ClientError", "asyncio.TimeoutError",
              "Exception"}
      [] exc = "aiohttp.ClientError" -> {"aiohttp.ClientError", "Exception"}
      [] exc = "ValueError" -> {"ValueError", "Exception"}
      [] exc = "KeyError" -> {"KeyError", "Exception"}
      [] OTHER -> {exc, "Exception"}

IsInstance(exc, classes) == BasesOf(exc) \cap classes # {}

\* The except clause of the lookup: `except KeyError`.
LookupCatches == {"KeyError"}

\* Variant: the `except aiohttp.ClientError` clause is missing.
ExceptClause_NoClientClause(exc) ==
    IF IsInstance(exc, {"asyncio.TimeoutError", "aiohttp.ServerTimeoutError"}) THEN "timeout"
    ELSE IF IsInstance(exc, {"ValueError"}) THEN "value"
    ELSE "other"

\* Variant: the `except aiohttp.ClientError` clause comes before the timeout clause.
ExceptClause_ClientFirst(exc) ==
    IF IsInstance(exc, {"aiohttp.ClientError"}) THEN "client"
    ELSE IF IsInstance(exc, {"asyncio.TimeoutError", "aiohttp.ServerTimeoutError"}) THEN "timeout"
    ELSE IF IsInstance(exc, {"ValueError"}) THEN "value"
    ELSE "other"

\* The first except clause of the retry loop that matches, in source order.
ExceptClause(exc) ==
    IF IsInstance(exc, {"asyncio.TimeoutError", "aiohttp.ServerTimeoutError"}) THEN "timeout"
    ELSE IF IsInstance(exc, {"aiohttp.ClientError"}) THEN "client"
    ELSE IF IsInstance(exc, {"ValueError"}) THEN "value"
    ELSE "other"

\* The error_type each clause gives its ScrapingError.
ErrorType(clause) ==
    CASE clause = "timeout" -> "Network Timeout"
      [] clause = "client" -> "Network Error"
      [] clause = "value" -> "Parser Error"
      [] clause = "other" -> "Unexpected Error"

\* Variant: the ValueError clause retries like the others.
Retries_EveryClause(clause) == TRUE

\* Variant: the catch-all clause returns its error at once, like the ValueError clause.
Retries_NetworkOnly(clause) == clause \in {"timeout", "client"}

\* The clauses that test `attempt == self.max_retries - 1` and otherwise sleep;
\* the ValueError clause returns its error at once.
Retries(clause) == clause \in {"timeout", "client", "other"}

\* Variant: the last attempt is tested for one too late.
IsLastAttempt_OffByOne(a, maxr) == a = maxr

\* attempt == self.max_retries - 1
IsLastAttempt(a, maxr) == a = maxr - 1

\* Variant: the exponent is the number of the attempt counted from one.
wait_time_FromOne(a) == Pow2(a + 1)

\* Variant: every wait lasts one second.
wait_time_Constant(a) == Pow2(0)

\* wait_time = 2**attempt
wait_time(a) == Pow2(a)

\* ScrapingError(brewery, error_type, ...); timestamp = datetime.now() is kept
\* as "this_call" until the next coordinator call starts, then "earlier_call".
ScrapingError(brewery, error_type) ==
    [brewery |-> brewery, error_type |-> error_type, timestamp |-> "this_call"]

Aged(errs) == [k \in 1..Len(errs) |-> [errs[k] EXCEPT !.timestamp = "earlier_call"]]

\* What a _scrape_brewery coroutine gives its awaiter.
Pending == [kind |-> "pending"]
TaskReturn(events, error) == [kind |-> "return", events |-> events, error |-> error]
TaskRaise(exc) == [kind |-> "raise", exc |-> exc]

-----------------------------------------------------------------------------
(* The environment: what a parser finds on its page, and the clock. *)

\* The event lists parser.parse returns for a brewery: nothing, or an event on
\* November 4 at 17:00 followed by one on November 10 (past the window of a call
\* made on November 2) and one on November 3, both without a start time.
Pages(b) ==
    { <<>>,
      << FoodTruckEvent(b.key, "Taco Truck", Midnight(4), Some(Midnight(4) + 17)),
         FoodTruckEvent(b.key, "Pizza Van", Midnight(10), None),
         FoodTruckEvent(b.key, "Burger Bus", Midnight(3), None) >> }

\* The UTC instant at which the Seattle wall clock shows hour h of November d.
UtcAt(d, h) == Midnight(d) + h - seattle_tz

-----------------------------------------------------------------------------
(* Initial state: a constructed coordinator, no call made yet. *)

\* max_concurrent: int = 5
default_max_concurrent == 5

NoCall == [call |-> "none", outcome |-> "none"]

Init ==
    /\ registry = _parsers
    /\ max_concurrent = default_max_concurrent
    /\ conn = <<>>
    /\ fetches = <<>>
    /\ max_retries \in 0..MaxRetries
    /\ errors = <<>>
    /\ phase = "idle"
    /\ breweries = <<>>
    /\ pc = <<>>
    /\ attempt = <<>>
    /\ result = <<>>
    /\ watched = 0
    /\ hist = <<>>
    /\ sleeps = <<>>
    /\ today = 2
    /\ now = UtcAt(2, 23)
    /\ all_events = <<>>
    /\ returned = NoCall
    /\ prior_errors = FALSE

-----------------------------------------------------------------------------
(* _scrape_brewery, one action per stretch between two awaits. *)

Running == phase \in {"scrape_all", "scrape_one"}

Tasks == 1..Len(breweries)

Terminal(i) == pc[i] \in {"done", "raised"}

\* Variant: a return after a failed attempt carries an error for that attempt
\* even when the last attempt returned events.
Finish_KeepsFailure(i, events, error) ==
    /\ pc' = [pc EXCEPT ![i] = "done"]
    /\ result' = [result EXCEPT ![i] =
                    TaskReturn(events,
                               IF error = None /\ attempt[i] > 0
                               THEN Some(ScrapingError(breweries[i], "Network Error"))
                               ELSE error)]
    /\ attempt' = [attempt EXCEPT ![i] = 0]

\* The coroutine returns (events, error); its frame, with the loop variable, is gone.
Finish(i, events, error) ==
    /\ pc' = [pc EXCEPT ![i] = "done"]
    /\ result' = [result EXCEPT ![i] = TaskReturn(events, error)]
    /\ attempt' = [attempt EXCEPT ![i] = 0]

\* The head of `for attempt in range(self.max_retries)` with the next value a:
\* the body runs with attempt = a, or the loop is over and `return [], None` runs.
LoopHead(i, a) ==
    IF a < max_retries
    THEN /\ pc' = [pc EXCEPT ![i] = "parsing"]
         /\ attempt' = [attempt EXCEPT ![i] = a]
         /\ result' = result
    ELSE Finish(i, <<>>, None)

\* try: ParserRegistry.get_parser(brewery.key) ... except KeyError
LookupParser(i) ==
    /\ Running
    /\ i \in Tasks
    /\ pc[i] = "lookup"
    /\ LET got == get_parser(breweries[i].key)
       IN  IF got.raised = None
           THEN LoopHead(i, 0)
           ELSE IF IsInstance(Val(got.raised), LookupCatches)
           THEN Finish(i, <<>>, Some(ScrapingError(breweries[i], "Configuration Error")))
           ELSE /\ pc' = [pc EXCEPT ![i] = "raised"]
                /\ result' = [result EXCEPT ![i] = TaskRaise(Val(got.raised))]
                /\ attempt' = attempt
    /\ UNCHANGED <<registry, max_concurrent, conn, fetches, max_retries, errors, phase, breweries, watched, hist, sleeps, today, now,
                   all_events, returned, prior_errors>>

Record(i, outcome) == IF i = watched THEN Append(hist, outcome) ELSE hist

\* events = await parser.parse(session); return events, None
ParseReturns(i) ==
    /\ Running
    /\ i \in Tasks
    /\ pc[i] = "parsing"
    /\ \E page \in Pages(breweries[i]) : Finish(i, page, None)
    /\ hist' = Record(i, "ok")
    /\ UNCHANGED <<registry, max_concurrent, conn, fetches, max_retries, errors, phase, breweries, watched, sleeps, today, now,
                   all_events, returned, prior_errors>>

\* Variant: asyncio.sleep(wait_time) is called without await, so the next
\* attempt begins as soon as the except clause ends.
ParseRaises_NoAwait(i) ==
    /\ Running
    /\ i \in Tasks
    /\ pc[i] = "parsing"
    /\ \E exc \in ExceptionClasses :
         LET clause == ExceptClause(exc)
         IN  /\ hist' = Record(i, exc)
             /\ sleeps' = sleeps
             /\ IF Retries(clause) /\ ~IsLastAttempt(attempt[i], max_retries)
                THEN LoopHead(i, attempt[i] + 1)
                ELSE Finish(i, <<>>, Some(ScrapingError(breweries[i], ErrorType(clause))))
    /\ UNCHANGED <<registry, max_concurrent, conn, fetches, max_retries, errors, phase, breweries, watched, today, now,
                   all_events, returned, prior_errors>>

\* Variant: the error of a task that gives up has the type of the first failure
\* of the task instead of the type of the failure it gives up on.
ParseRaises_FirstKind(i) ==
    /\ Running
    /\ i \in Tasks
    /\ pc[i] = "parsing"
    /\ \E exc \in ExceptionClasses :
         LET clause == ExceptClause(exc)
             first == IF i = watched /\ hist # <<>> THEN ExceptClause(hist[1]) ELSE clause
         IN  /\ hist' = Record(i, exc)
             /\ IF Retries(clause) /\ ~IsLastAttempt(attempt[i], max_retries)
                THEN /\ pc' = [pc EXCEPT ![i] = "sleeping"]
                     /\ sleeps' = IF i = watched
                                  THEN Append(sleeps, wait_time(attempt[i]))
                                  ELSE sleeps
                     /\ UNCHANGED <<result, attempt>>
                ELSE /\ Finish(i, <<>>, Some(ScrapingError(breweries[i], ErrorType(first))))
                     /\ sleeps' = sleeps
    /\ UNCHANGED <<registry, max_concurrent, conn, fetches, max_retries, errors, phase, breweries, watched, today, now,
                   all_events, returned, prior_errors>>

\* await parser.parse(session) raises exc: the except clauses of the loop body.
ParseRaises(i) ==
    /\ Running
    /\ i \in Tasks
    /\ pc[i] = "parsing"
    /\ \E exc \in ExceptionClasses :
         LET clause == ExceptClause(exc)
         IN  /\ hist' = Record(i, exc)
             /\ IF Retries(clause) /\ ~IsLastAttempt(attempt[i], max_retries)
                THEN /\ pc' = [pc EXCEPT ![i] = "sleeping"]
                     /\ sleeps' = IF i = watched
                                  THEN Append(sleeps, wait_time(attempt[i]))
                                  ELSE sleeps
                     /\ UNCHANGED <<result, attempt>>
                ELSE /\ Finish(i, <<>>, Some(ScrapingError(breweries[i], ErrorType(clause))))
                     /\ sleeps' = sleeps
    /\ UNCHANGED <<registry, max_concurrent, conn, fetches, max_retries, errors, phase, breweries, watched, today, now,
                   all_events, returned, prior_errors>>

\* await asyncio.sleep(wait_time) is over: the loop goes on with the next attempt.
BackoffElapsed(i) ==
    /\ Running
    /\ i \in Tasks
    /\ pc[i] = "sleeping"
    /\ LoopHead(i, attempt[i] + 1)
    /\ UNCHANGED <<registry, max_concurrent, conn, fetches, max_retries, errors, phase, breweries, watched, hist, sleeps, today, now,
                   all_events, returned, prior_errors>>

-----------------------------------------------------------------------------
(* scrape_all *)

\* Variant: the list is not reset.
ResetErrors_Keep(errs) == errs

\* self.errors = []  # Reset errors for this run
ResetErrors(errs) == <<>>

\* The coroutines of a call over brews are created; none has run yet.
Launch(brews, w) ==
    /\ breweries' = brews
    /\ pc' = [i \in 1..Len(brews) |-> "lookup"]
    /\ attempt' = [i \in 1..Len(brews) |-> 0]
    /\ result' = [i \in 1..Len(brews) |-> Pending]
    /\ watched' = w
    /\ hist' = <<>>
    /\ sleeps' = <<>>
    /\ all_events' = <<>>
    /\ returned' = NoCall
    /\ prior_errors' = (Len(errors) > 0)

ScrapeAllCall ==
    /\ phase = "idle"
    /\ \E n \in 1..MaxSources :
         \E registered \in [1..n -> BOOLEAN] :
           \E w \in 1..n :
             Launch([i \in 1..n |-> Brewery(i, registered[i])], w)
    /\ errors' = ResetErrors(Aged(errors))
    /\ phase' = "scrape_all"
    /\ UNCHANGED <<registry, max_concurrent, conn, fetches, max_retries, today, now>>

\* Variant: a raised exception among the results is skipped without an error.
ErrorOf_DropsRaised(brews, results, i) ==
    IF results[i].kind = "raise" THEN None ELSE results[i].error

\* One round of the loop over the results of
\* asyncio.gather(*tasks, return_exceptions=True): the error it appends to
\* self.errors (None: it appends nothing) ...
ErrorOf(brews, results, i) ==
    IF results[i].kind = "raise"
    THEN Some(ScrapingError(brews[i], "Unexpected Error"))
    ELSE results[i].error

\* ... and the events it adds with all_events.extend(events).
EventsOf(results, i) ==
    IF results[i].kind = "raise" THEN <<>> ELSE results[i].events

\* Variant: an error is appended where it is made and again by the loop.
RECURSIVE GatheredErrors_Twice(_, _, _)
GatheredErrors_Twice(brews, results, n) ==
    IF n = 0 THEN <<>>
    ELSE GatheredErrors_Twice(brews, results, n - 1)
         \o ErrorOf(brews, results, n) \o ErrorOf(brews, results, n)

\* Variant: all_events = events instead of all_events.extend(events).
GatheredEvents_LastOnly(results, n) ==
    IF n = 0 THEN <<>> ELSE EventsOf(results, n)

\* Variant: the results are gone through from the last to the first.
RECURSIVE GatheredErrors_Reversed(_, _, _)
GatheredErrors_Reversed(brews, results, n) ==
    IF n = 0 THEN <<>>
    ELSE ErrorOf(brews, results, n) \o GatheredErrors_Reversed(brews, results, n - 1)

\* The whole loop, rounds 1..n in the order of the results.
RECURSIVE GatheredErrors(_, _, _)
GatheredErrors(brews, results, n) ==
    IF n = 0 THEN <<>>
    ELSE GatheredErrors(brews, results, n - 1) \o ErrorOf(brews, results, n)

RECURSIVE GatheredEvents(_, _)
GatheredEvents(results, n) ==
    IF n = 0 THEN <<>>
    ELSE GatheredEvents(results, n - 1) \o EventsOf(results, n)

\* gather is over: aggregate, filter, sort, return.
ScrapeAllReturn ==
    /\ phase = "scrape_all"
    /\ \A i \in Tasks : Terminal(i)
    /\ errors' = errors \o GatheredErrors(breweries, result, Len(result))
    /\ all_events' = GatheredEvents(result, Len(result))
    /\ returned' = [call |-> "scrape_all", outcome |-> "returned",
                    events |-> _filter_and_sort_events(all_events', now)]
    /\ phase' = "idle"
    /\ watched' = 0
    /\ hist' = <<>>
    /\ sleeps' = <<>>
    /\ UNCHANGED <<registry, max_concurrent, conn, fetches, max_retries, breweries, pc, attempt, result, today, now, prior_errors>>

-----------------------------------------------------------------------------
(* scrape_one *)

ScrapeOneCall ==
    /\ phase = "idle"
    /\ \E registered \in BOOLEAN : Launch(<<Brewery(1, registered)>>, 1)
    /\ errors' = Aged(errors)
    /\ phase' = "scrape_one"
    /\ UNCHANGED <<registry, max_concurrent, conn, fetches, max_retries, today, now>>

\* events, error = await self._scrape_brewery(session, brewery), then the rest
\* of scrape_one; an exception of the coroutine leaves scrape_one as it is.
ScrapeOneReturn ==
    /\ phase = "scrape_one"
    /\ Terminal(1)
    /\ IF result[1].kind = "raise"
       THEN /\ returned' = [call |-> "scrape_one", outcome |-> "raised",
                            exc |-> result[1].exc]
            /\ UNCHANGED <<errors, all_events>>
       ELSE /\ all_events' = result[1].events
            /\ errors' = IF result[1].error # None THEN <<Val(result[1].error)>> ELSE <<>>
            /\ returned' = [call |-> "scrape_one", outcome |-> "returned",
                            events |-> _filter_and_sort_events(all_events', now),
                            error |-> result[1].error]
    /\ phase' = "idle"
    /\ watched' = 0
    /\ hist' = <<>>
    /\ sleeps' = <<>>
    /\ UNCHANGED <<registry, max_concurrent, conn, fetches, max_retries, breweries, pc, attempt, result, today, now, prior_errors>>

\* get_errors / has_errors
get_errors == errors
has_errors == Len(errors) > 0

-----------------------------------------------------------------------------

Next ==
    \/ ScrapeAllCall
    \/ ScrapeAllReturn
    \/ ScrapeOneCall
    \/ ScrapeOneReturn
    \/ \E i \in 1..MaxSources : LookupParser(i)
    \/ \E i \in 1..MaxSources : ParseReturns(i)
    \/ \E i \in 1..MaxSources : ParseRaises(i)
    \/ \E i \in 1..MaxSources : BackoffElapsed(i)

Spec == Init /\ [][Next]_vars

-----------------------------------------------------------------------------
(* _filter_and_sort_events on its own: the call applied to any list of up to   *)
(* MaxEvents events, at the start or the end of a Seattle day.                 *)

\* Dates around a window that starts on November 2 or 3, and start times:
\* none, midnight, 09:00.
EventDays == {1, 2, 4, 9, 10}
StartHours == {0, 9}
EventShapes ==
    { <<d, None>> : d \in EventDays } \cup
    { <<d, Some(Midnight(d) + h)>> : d \in EventDays, h \in StartHours }

InitSort ==
    /\ registry = _parsers
    /\ max_concurrent = default_max_concurrent
    /\ conn = <<>>
    /\ fetches = <<>>
    /\ max_retries = 0
    /\ errors = <<>>
    /\ phase = "collect"
    /\ breweries = <<>>
    /\ pc = <<>>
    /\ attempt = <<>>
    /\ result = <<>>
    /\ watched = 0
    /\ hist = <<>>
    /\ sleeps = <<>>
    /\ today \in {2, 3}
    /\ \E h \in {0, 23} : now = UtcAt(today, h)
    /\ all_events = <<>>
    /\ returned = NoCall
    /\ prior_errors = FALSE

\* The caller puts one more event on the list; the k-th event is named k, so
\* that equal events stay apart.
CollectEvent ==
    /\ phase = "collect"
    /\ Len(all_events) < MaxEvents
    /\ \E shape \in EventShapes :
         all_events' = Append(all_events,
                              FoodTruckEvent("roulette", Len(all_events) + 1,
                                             Midnight(shape[1]), shape[2]))
    /\ UNCHANGED <<registry, max_concurrent, conn, fetches, max_retries, errors, phase, breweries, pc, attempt, result, watched, hist,
                   sleeps, today, now, returned, prior_errors>>

FilterAndSortCall ==
    /\ phase = "collect"
    /\ returned' = [call |-> "_filter_and_sort_events", outcome |-> "returned",
                    events |-> _filter_and_sort_events(all_events, now)]
    /\ phase' = "filtered"
    /\ UNCHANGED <<registry, max_concurrent, conn, fetches, max_retries, errors, breweries, pc, attempt, result, watched, hist, sleeps,
                   today, now, all_events, prior_errors>>

NextSort ==
    \/ CollectEvent
    \/ FilterAndSortCall

SpecSort == InitSort /\ [][NextSort]_vars

-----------------------------------------------------------------------------
(* ParserRegistry on its own: any sequence of up to MaxRegistrations           *)
(* register_parser calls, with get_parser and get_supported_keys calls in      *)
(* between.                                                                    *)

\* Keys handed to register_parser: the first and the last key of the class
\* body, and the keys of two venues that have a parser class but no entry.
RegisteredKeys == {"stoup-ballard", "union-hall", "bell-house", "littlefield-nyc"}

\* Parser classes handed to register_parser.
ParserClasses == {"BellHouseParser", "LittlefieldNYCParser"}

\* Keys handed to get_parser: those, and one that is never registered.
LookedUpKeys == RegisteredKeys \cup {"ghost-1"}

InitRegistry ==
    /\ registry = _parsers
    /\ max_concurrent = default_max_concurrent
    /\ conn = <<>>
    /\ fetches = <<>>
    /\ max_retries = 0
    /\ errors = <<>>
    /\ phase = "registry"
    /\ breweries = <<>>
    /\ pc = <<>>
    /\ attempt = <<>>
    /\ result = <<>>
    /\ watched = 0
    /\ hist = <<>>
    /\ sleeps = <<>>
    /\ today = 2
    /\ now = UtcAt(2, 23)
    /\ all_events = <<>>
    /\ returned = NoCall
    /\ prior_errors = FALSE

RegisterParserCall ==
    /\ phase = "registry"
    /\ Len(hist) < MaxRegistrations
    /\ \E key \in RegisteredKeys, parser_class \in ParserClasses :
         /\ registry' = register_parser(registry, key, parser_class)
         /\ hist' = Append(hist, Item(key, parser_class))
    /\ returned' = [call |-> "register_parser", outcome |-> "returned"]
    /\ UNCHANGED <<max_concurrent, conn, fetches, max_retries, errors, phase, breweries, pc,
                   attempt, result, watched, sleeps, today, now, all_events, prior_errors>>

GetParserCall ==
    /\ phase = "registry"
    /\ \E key \in LookedUpKeys :
         returned' = [call |-> "get_parser", outcome |-> "ended", key |-> key,
                      result |-> get_parser(key)]
    /\ UNCHANGED <<registry, max_concurrent, conn, fetches, max_retries, errors, phase,
                   breweries, pc, attempt, result, watched, hist, sleeps, today, now,
                   all_events, prior_errors>>

GetSupportedKeysCall ==
    /\ phase = "registry"
    /\ returned' = [call |-> "get_supported_keys", outcome |-> "returned",
                    keys |-> get_supported_keys]
    /\ UNCHANGED <<registry, max_concurrent, conn, fetches, max_retries, errors, phase,
                   breweries, pc, attempt, result, watched, hist, sleeps, today, now,
                   all_events, prior_errors>>

NextRegistry ==
    \/ RegisterParserCall
    \/ GetParserCall
    \/ GetSupportedKeysCall

SpecRegistry == InitRegistry /\ [][NextRegistry]_vars

-----------------------------------------------------------------------------
(* The session of scrape_all and its connector: the tasks of one call as far   *)
(* as their requests go. What a task does with a response is left to Spec.     *)

\* Variant: the connector is made without the limit of the coordinator.
ConnectorLimit_NotPassed(limit) == limit + MaxFanOut

\* aiohttp.TCPConnector(limit=self.max_concurrent): the number of connections
\* the connector lets be open at once.
ConnectorLimit(limit) == limit

\* The tasks that hold a connection of the session.
Held == {i \in 1..Len(conn) : conn[i] = "held"}

InitPool ==
    /\ registry = _parsers
    /\ max_concurrent \in 1..MaxConcurrent
    /\ conn = <<>>
    /\ fetches = <<>>
    /\ max_retries = 0
    /\ errors = <<>>
    /\ phase = "idle"
    /\ breweries = <<>>
    /\ pc = <<>>
    /\ attempt = <<>>
    /\ result = <<>>
    /\ watched = 0
    /\ hist = <<>>
    /\ sleeps = <<>>
    /\ today = 2
    /\ now = UtcAt(2, 23)
    /\ all_events = <<>>
    /\ returned = NoCall
    /\ prior_errors = FALSE

\* scrape_all is called: the connector and the session are made.
OpenSession ==
    /\ phase = "idle"
    /\ \E n \in 1..MaxFanOut : breweries' = [i \in 1..n |-> Brewery(i, TRUE)]
    /\ pc' = <<>>
    /\ conn' = <<>>
    /\ fetches' = <<>>
    /\ phase' = "creating"
    /\ UNCHANGED <<registry, max_concurrent, max_retries, errors, attempt, result, watched,
                   hist, sleeps, today, now, all_events, returned, prior_errors>>

\* One round of `for brewery in breweries`: the coroutine of the next brewery
\* is made and put on the list; it does not run yet.
CreateTask ==
    /\ phase = "creating"
    /\ Len(pc) < Len(breweries)
    /\ pc' = Append(pc, "created")
    /\ conn' = Append(conn, "idle")
    /\ fetches' = Append(fetches, 0)
    /\ UNCHANGED <<registry, max_concurrent, max_retries, errors, phase, breweries, attempt,
                   result, watched, hist, sleeps, today, now, all_events, returned,
                   prior_errors>>

\* await asyncio.gather(*tasks, ...): every coroutine of the list is scheduled.
Gather ==
    /\ phase = "creating"
    /\ Len(pc) = Len(breweries)
    /\ pc' = [i \in 1..Len(pc) |-> "parsing"]
    /\ phase' = "gathering"
    /\ UNCHANGED <<registry, max_concurrent, conn, fetches, max_retries, errors, breweries,
                   attempt, result, watched, hist, sleeps, today, now, all_events, returned,
                   prior_errors>>

\* A running task asks the session for a page: it needs a connection.
RequestConnection(i) ==
    /\ phase = "gathering"
    /\ i \in 1..Len(pc)
    /\ pc[i] = "parsing"
    /\ conn[i] = "idle"
    /\ fetches[i] < MaxFetches
    /\ conn' = [conn EXCEPT ![i] = "waiting"]
    /\ UNCHANGED <<registry, max_concurrent, fetches, max_retries, errors, phase, breweries,
                   pc, attempt, result, watched, hist, sleeps, today, now, all_events,
                   returned, prior_errors>>

\* The connector gives a waiting task a connection when fewer than its limit are open.
AcquireConnection(i) ==
    /\ phase = "gathering"
    /\ i \in 1..Len(pc)
    /\ conn[i] = "waiting"
    /\ Cardinality(Held) < ConnectorLimit(max_concurrent)
    /\ conn' = [conn EXCEPT ![i] = "held"]
    /\ UNCHANGED <<registry, max_concurrent, fetches, max_retries, errors, phase, breweries,
                   pc, attempt, result, watched, hist, sleeps, today, now, all_events,
                   returned, prior_errors>>

\* The request is over (a response, an error or the timeout): the connection is free again.
ReleaseConnection(i) ==
    /\ phase = "gathering"
    /\ i \in 1..Len(pc)
    /\ conn[i] = "held"
    /\ conn' = [conn EXCEPT ![i] = "idle"]
    /\ fetches' = [fetches EXCEPT ![i] = @ + 1]
    /\ UNCHANGED <<registry, max_concurrent, max_retries, errors, phase, breweries, pc,
                   attempt, result, watched, hist, sleeps, today, now, all_events, returned,
                   prior_errors>>

\* _scrape_brewery returns, with events or with an error.
TaskEnds(i) ==
    /\ phase = "gathering"
    /\ i \in 1..Len(pc)
    /\ pc[i] = "parsing"
    /\ conn[i] = "idle"
    /\ pc' = [pc EXCEPT ![i] = "done"]
    /\ fetches' = [fetches EXCEPT ![i] = 0]
    /\ UNCHANGED <<registry, max_concurrent, conn, max_retries, errors, phase, breweries,
                   attempt, result, watched, hist, sleeps, today, now, all_events, returned,
                   prior_errors>>

\* gather is over and the session is closed.
CloseSession ==
    /\ phase = "gathering"
    /\ \A i \in 1..Len(pc) : pc[i] = "done"
    /\ phase' = "idle"
    /\ UNCHANGED <<registry, max_concurrent, conn, fetches, max_retries, errors, breweries,
                   pc, attempt, result, watched, hist, sleeps, today, now, all_events,
                   returned, prior_errors>>

NextPool ==
    \/ OpenSession
    \/ CreateTask
    \/ Gather
    \/ CloseSession
    \/ \E i \in 1..MaxFanOut : RequestConnection(i)
    \/ \E i \in 1..MaxFanOut : AcquireConnection(i)
    \/ \E i \in 1..MaxFanOut : ReleaseConnection(i)
    \/ \E i \in 1..MaxFanOut : TaskEnds(i)

\* A request ends within the timeout of the session, and the connector hands a
\* free connection to a task that keeps waiting for one.
PoolFairness ==
    \A i \in 1..MaxFanOut :
      WF_vars(AcquireConnection(i)) /\ WF_vars(ReleaseConnection(i))

SpecPool == InitPool /\ [][NextPool]_vars /\ PoolFairness

-----------------------------------------------------------------------------
(* The two command-line entry points, main.py and events_main.py: what main()  *)
(* prints about the errors and the exit code it returns, from the events the   *)
(* parsers produced and the errors the coordinator recorded.                   *)

\* models/schedule.py: the attributes of the two event classes.
Attributes(class) ==
    IF class = "FoodTruckEvent"
    THEN {"brewery_key", "brewery_name", "food_truck_name", "date", "start_time",
          "end_time", "description", "ai_generated_name"}
    ELSE {"venue_key", "venue_name", "artist_name", "date", "doors_time", "show_time",
          "end_time", "description", "min_age", "ticket_url", "price",
          "ai_generated_name"}

MusicEvent(key, name, date, doors_time) ==
    [venue_key |-> key, artist_name |-> name, date |-> date, doors_time |-> doors_time]

ClassOf(event) ==
    IF "food_truck_name" \in DOMAIN event THEN "FoodTruckEvent" ELSE "MusicEvent"

\* Reading event.<attr> raises AttributeError when the class has no such attribute.
HasAttr(event, attr) == attr \in Attributes(ClassOf(event))

\* A ScrapingError as the entry points see it: the source's name and the message.
ReportedError(name, message) == [brewery |-> [name |-> name], message |-> message]

\* ScrapingError.to_user_message
to_user_message(error) == <<"Failed to fetch information for brewery: ", error.brewery.name>>

\* list(dict.fromkeys(s)): the first occurrence of each element, in order.
DictFromKeys(s) ==
    LET first == {k \in 1..Len(s) : \A j \in 1..(k - 1) : s[j] # s[k]}
        Nth[n \in 0..Len(s)] ==
            IF n = 0 THEN 0
            ELSE CHOOSE k \in first : k > Nth[n - 1] /\ \A j \in first : j > Nth[n - 1] => k <= j
    IN  [n \in 1..Cardinality(first) |-> s[Nth[n]]]

\* user_messages of events_main.format_events_output.
user_messages(errs) == DictFromKeys([k \in 1..Len(errs) |-> to_user_message(errs[k])])

EntryPoints == {"main", "events_main"}

\* The attributes format_events_output reads of every event it is given.
FormatReads(entry) ==
    IF entry = "main"
    THEN {"date", "start_time", "food_truck_name", "description", "brewery_name"}
    ELSE {"date", "doors_time", "show_time", "ai_generated_name", "artist_name",
          "venue_name", "min_age", "description", "ticket_url"}

\* The lines under "Errors:" of format_events_output, without the bullet.
ErrorLines(entry, errs) ==
    IF entry = "main"
    THEN [k \in 1..Len(errs) |-> <<errs[k].brewery.name, ": ", errs[k].message>>]
    ELSE user_messages(errs)

\* The headline of the error section of format_events_output.
Headline(events, errs) ==
    IF errs = <<>> THEN "none"
    ELSE IF events # <<>> THEN "Processing Summary" ELSE "No events found - all failed"

format_events_output(entry, events, errs) ==
    IF \E k \in 1..Len(events) : \E attr \in FormatReads(entry) : ~HasAttr(events[k], attr)
    THEN Raises("AttributeError")
    ELSE Returns([headline |-> Headline(events, errs), error_lines |-> ErrorLines(entry, errs)])

\* scrape_food_trucks / scrape_events: load the configuration, run scrape_all on
\* it and hand back its events with get_errors(). The sort of
\* _filter_and_sort_events reads start_time of every event that passed the filter.
scrape(config_found, produced, errs, utc) ==
    LET kept == SelectSeq(produced, LAMBDA e : InNextWeek(e, utc))
    IN  IF ~config_found THEN Raises("FileNotFoundError")
        ELSE IF \E k \in 1..Len(kept) : ~HasAttr(kept[k], "start_time")
             THEN Raises("AttributeError")
             ELSE Returns([events |-> SortEvents(kept), errors |-> errs])

\* The exit code at the end of the try block of main().
ExitCode(events, errs) ==
    IF errs # <<>> /\ events = <<>> THEN 1
    ELSE IF errs # <<>> THEN 2
    ELSE 0

\* main(), after the arguments are parsed: args.deploy and args.preview are the
\* --deploy and --preview flags. deploy_to_web and preview_locally catch what
\* they raise, so they do not change the outcome; `deployed` and `previewed` say
\* whether they were called.
main(entry, config_found, produced, errs, utc, args) ==
    LET scraped == scrape(config_found, produced, errs, utc)
        output == format_events_output(entry, scraped.value.events, scraped.value.errors)
    IN  IF scraped.raised # None
        THEN [call |-> entry, args |-> args, outcome |-> "returned", exit_code |-> 1,
              critical |-> scraped.raised, events |-> <<>>, printed |-> None,
              deployed |-> FALSE, previewed |-> FALSE]
        ELSE IF output.raised # None
        THEN [call |-> entry, args |-> args, outcome |-> "returned", exit_code |-> 1,
              critical |-> output.raised, events |-> scraped.value.events, printed |-> None,
              deployed |-> FALSE, previewed |-> FALSE]
        ELSE [call |-> entry, args |-> args, outcome |-> "returned",
              exit_code |-> ExitCode(scraped.value.events, scraped.value.errors),
              critical |-> None, events |-> scraped.value.events,
              printed |-> Some(output.value),
              deployed |-> (args.deploy /\ scraped.value.events # <<>>),
              previewed |-> (args.preview /\ scraped.value.events # <<>>)]

SourceNames == {"Union Hall", "Roulette"}
ErrorMessages == {"Connection timeout after 30s", "Network error: reset"}
ProducedDays == {4, 20}
EventClasses == {"FoodTruckEvent", "MusicEvent"}

InitMain ==
    /\ registry = _parsers
    /\ max_concurrent = default_max_concurrent
    /\ conn = <<>>
    /\ fetches = <<>>
    /\ max_retries = 3
    /\ errors = <<>>
    /\ phase = "scraping"
    /\ breweries = <<>>
    /\ pc = <<>>
    /\ attempt = <<>>
    /\ result = <<>>
    /\ watched = 0
    /\ hist = <<>>
    /\ sleeps = <<>>
    /\ today = 2
    /\ now = UtcAt(2, 23)
    /\ all_events = <<>>
    /\ returned = NoCall
    /\ prior_errors = FALSE

\* A parser of the run returns one more event.
ParserYields ==
    /\ phase = "scraping"
    /\ Len(all_events) < MaxEvents
    /\ \E d \in ProducedDays, class \in EventClasses :
         all_events' = Append(all_events,
                              IF class = "FoodTruckEvent"
                              THEN FoodTruckEvent("union-hall", Len(all_events) + 1,
                                                  Midnight(d), None)
                              ELSE MusicEvent("littlefield-nyc", Len(all_events) + 1,
                                              Midnight(d), None))
    /\ UNCHANGED <<registry, max_concurrent, conn, fetches, max_retries, errors, phase,
                   breweries, pc, attempt, result, watched, hist, sleeps, today, now,
                   returned, prior_errors>>

\* A source of the run fails: scrape_all appends its ScrapingError.
SourceFails ==
    /\ phase = "scraping"
    /\ Len(errors) < MaxSources
    /\ \E name \in SourceNames, message \in ErrorMessages :
         errors' = Append(errors, ReportedError(name, message))
    /\ UNCHANGED <<registry, max_concurrent, conn, fetches, max_retries, phase, breweries,
                   pc, attempt, result, watched, hist, sleeps, today, now, all_events,
                   returned, prior_errors>>

MainCall ==
    /\ phase = "scraping"
    /\ \E entry \in EntryPoints, config_found \in BOOLEAN,
          args \in [deploy : BOOLEAN, preview : BOOLEAN] :
         returned' = main(entry, config_found, all_events, errors, now, args)
    /\ phase' = "exited"
    /\ UNCHANGED <<registry, max_concurrent, conn, fetches, max_retries, errors, breweries,
                   pc, attempt, result, watched, hist, sleeps, today, now, all_events,
                   prior_errors>>

NextMain ==
    \/ ParserYields
    \/ SourceFails
    \/ MainCall

SpecMain == InitMain /\ [][NextMain]_vars

-----------------------------------------------------------------------------
(* LittlefieldNYCParser.filter_valid_events on its own: a list of up to        *)
(* MaxScraped extracted events is filtered, and the result filtered again.     *)

\* A str is the sequence of its characters; " " stands for any whitespace.
RECURSIVE lstrip(_)
lstrip(s) == IF s # <<>> /\ Head(s) = " " THEN lstrip(Tail(s)) ELSE s

RECURSIVE rstrip(_)
rstrip(s) ==
    IF s # <<>> /\ s[Len(s)] = " " THEN rstrip(SubSeq(s, 1, Len(s) - 1)) ELSE s

\* str.strip
strip(s) == rstrip(lstrip(s))

\* `len(event.artist_name.strip()) < 2`
min_artist_len == 2

\* `date.today() - timedelta(days=1)`
past_days == 1

\* Variant: no day of grace, an event of yesterday is dropped.
IsValidEvent_NoGrace(event, date_today) ==
    /\ event.artist_name # None
    /\ event.date # None
    /\ Len(strip(Val(event.artist_name))) >= min_artist_len
    /\ DateOf(Val(event.date)) >= date_today

\* The body of the loop of filter_valid_events: whether `event` is appended.
\* `not x` holds of None and of the empty string; a datetime is never falsy.
IsValidEvent(event, date_today) ==
    IF event.artist_name = None \/ Val(event.artist_name) = <<>> \/ event.date = None
    THEN FALSE
    ELSE IF Len(strip(Val(event.artist_name))) < min_artist_len
    THEN FALSE
    ELSE IF DateOf(Val(event.date)) < date_today - past_days
    THEN FALSE
    ELSE TRUE

\* LittlefieldNYCParser.filter_valid_events, with date.today() = date_today.
RECURSIVE filter_valid_events(_, _)
filter_valid_events(events, date_today) ==
    IF events = <<>> THEN <<>>
    ELSE LET valid_events == filter_valid_events(SubSeq(events, 1, Len(events) - 1),
                                                 date_today)
             event == events[Len(events)]
         IN  IF IsValidEvent(event, date_today) THEN Append(valid_events, event)
             ELSE valid_events

MaxScraped == 3

\* Artist names as extracted: missing, empty, blank, one character with
\* padding, two characters with and without padding.
ArtistNames ==
    { None, Some(<<>>), Some(<<" ">>), Some(<<" ", "a", " ">>), Some(<<"a", "b">>),
      Some(<<" ", "a", "b">>) }

\* Dates as extracted: missing, or an instant of a day around today.
EventDates ==
    { None, Some(Midnight(1) + 23), Some(Midnight(2)), Some(Midnight(3) + 20) }

ScrapedEvent(n, artist_name, date) == [n |-> n, artist_name |-> artist_name, date |-> date]

InitValid ==
    /\ registry = _parsers
    /\ max_concurrent = default_max_concurrent
    /\ conn = <<>>
    /\ fetches = <<>>
    /\ max_retries = 0
    /\ errors = <<>>
    /\ phase = "extracted"
    /\ breweries = <<>>
    /\ pc = <<>>
    /\ attempt = <<>>
    /\ result = <<>>
    /\ watched = 0
    /\ hist = <<>>
    /\ sleeps = <<>>
    /\ today = 3
    /\ now = UtcAt(3, 12)
    /\ all_events = <<>>
    /\ returned = NoCall
    /\ prior_errors = FALSE

\* The extraction finds one more event on the page.
ExtractEvent ==
    /\ phase = "extracted"
    /\ Len(all_events) < MaxScraped
    /\ \E artist_name \in ArtistNames, date \in EventDates :
         all_events' = Append(all_events,
                              ScrapedEvent(Len(all_events) + 1, artist_name, date))
    /\ UNCHANGED <<registry, max_concurrent, conn, fetches, max_retries, errors, phase,
                   breweries, pc, attempt, result, watched, hist, sleeps, today, now,
                   returned, prior_errors>>

\* filter_valid_events(events); `hist` keeps the argument of the call.
FilterValidCall ==
    /\ phase = "extracted"
    /\ hist' = all_events
    /\ returned' = [call |-> "filter_valid_events", outcome |-> "returned",
                    events |-> filter_valid_events(all_events, today)]
    /\ phase' = "filtered"
    /\ UNCHANGED <<registry, max_concurrent, conn, fetches, max_retries, errors, breweries,
                   pc, attempt, result, watched, sleeps, today, now, all_events,
                   prior_errors>>

\* filter_valid_events applied to what it returned, on the same day.
FilterValidAgain ==
    /\ phase = "filtered"
    /\ hist' = returned.events
    /\ returned' = [call |-> "filter_valid_events", outcome |-> "returned",
                    events |-> filter_valid_events(returned.events, today)]
    /\ phase' = "refiltered"
    /\ UNCHANGED <<registry, max_concurrent, conn, fetches, max_retries, errors, breweries,
                   pc, attempt, result, watched, sleeps, today, now, all_events,
                   prior_errors>>

NextValid ==
    \/ ExtractEvent
    \/ FilterValidCall
    \/ FilterValidAgain

SpecValid == InitValid /\ [][NextValid]_vars

-----------------------------------------------------------------------------
(* RouletteParser._parse_datetime on its own. A time text is given by what     *)
(* its pieces are: how many parts `split('.')` finds, the day strptime reads   *)
(* off the first part (if it can), and the groups the time pattern finds in    *)
(* the second part (if it matches).                                            *)

\* datetime(year, month, day, hour, minute) of November 2025: ValueError when
\* hour or minute is out of range.
datetime(day, hour, minute) ==
    IF hour \in 0..23 /\ minute \in 0..59
    THEN Returns([day |-> day, hour |-> hour, minute |-> minute])
    ELSE Raises("ValueError")

\* str.lower on the am/pm group.
lower(s) == IF s = "AM" THEN "am" ELSE IF s = "PM" THEN "pm" ELSE s

\* Variant: 12 is treated like every other hour.
to_24_hour_NoTwelve(hour, am_pm) == IF am_pm = "pm" THEN hour + 12 ELSE hour

\* "Convert to 24-hour format"
to_24_hour(hour, am_pm) ==
    IF am_pm = "pm" /\ hour # 12 THEN hour + 12
    ELSE IF am_pm = "am" /\ hour = 12 THEN 0
    ELSE hour

TimeText(parts, date, time) == [parts |-> parts, date |-> date, time |-> time]

\* RouletteParser._parse_datetime: the tuple (date_obj, start_time, end_time).
_parse_datetime(time_text) ==
    IF time_text.parts < 2 THEN <<None, None, None>>
    ELSE IF time_text.date = None THEN <<None, None, None>>
    ELSE LET date_obj == datetime(Val(time_text.date), 0, 0).value
         IN  IF time_text.time # None
             THEN LET time_match == Val(time_text.time)
                      hour == to_24_hour(time_match.hour, lower(time_match.am_pm))
                      start_time == datetime(date_obj.day, hour, time_match.minute)
                  IN  IF start_time.raised # None THEN <<None, None, None>>
                      ELSE <<Some(date_obj), Some(start_time.value), None>>
             ELSE <<Some(date_obj), None, None>>

\* What `(\d{1,2}):(\d{2})\s*(am|pm)` can find. The hours and minutes of a clock,
\* and one value on each side that only the pattern accepts.
MatchedHours == 0..13
MatchedMinutes == 0..60
MatchedSuffixes == {"am", "pm", "PM"}
TimeMatches ==
    { [hour |-> h, minute |-> m, am_pm |-> s] :
          h \in MatchedHours, m \in MatchedMinutes, s \in MatchedSuffixes }

TimeTexts ==
    { TimeText(parts, date, time) :
          parts \in 1..2,
          date \in {None, Some(4), Some(30)},
          time \in {None} \cup { Some(t) : t \in TimeMatches } }

InitDatetime ==
    /\ registry = _parsers
    /\ max_concurrent = default_max_concurrent
    /\ conn = <<>>
    /\ fetches = <<>>
    /\ max_retries = 0
    /\ errors = <<>>
    /\ phase = "element"
    /\ breweries = <<>>
    /\ pc = <<>>
    /\ attempt = <<>>
    /\ result = <<>>
    /\ watched = 0
    /\ hist = <<>>
    /\ sleeps = <<>>
    /\ today = 2
    /\ now = UtcAt(2, 23)
    /\ all_events = <<>>
    /\ returned = NoCall
    /\ prior_errors = FALSE

ParseDatetimeCall ==
    /\ phase = "element"
    /\ \E time_text \in TimeTexts :
         returned' = [call |-> "_parse_datetime", outcome |-> "returned",
                      time_text |-> time_text, result |-> _parse_datetime(time_text)]
    /\ phase' = "parsed"
    /\ UNCHANGED <<registry, max_concurrent, conn, fetches, max_retries, errors, breweries,
                   pc, attempt, result, watched, hist, sleeps, today, now, all_events,
                   prior_errors>>

NextDatetime == ParseDatetimeCall

SpecDatetime == InitDatetime /\ [][NextDatetime]_vars

-----------------------------------------------------------------------------
(* RouletteParser.parse: one page of up to MaxElements `div.event` containers  *)
(* is fetched and parsed.                                                      *)

\* BaseParser.fetch_page ends by returning the document or by raising: the
\* session's network errors and timeouts, or the error for a non-2xx status.
FetchOutcomes == {"ok", "ClientError", "TimeoutError", "ClientResponseError"}

\* BaseParser.filter_valid_events: events with an empty title, without a date or
\* dated more than one day in the past are dropped.
BaseFilterValidEvents(events, date_today) ==
    SelectSeq(events, LAMBDA e : /\ e.food_truck_name # ""
                                 /\ e.date # None
                                 /\ e.date.day >= date_today - 1)

\* One `div.event` container: the text of its title link and of its time
\* element (None when the element is missing), and whether reading it raises.
EventElement(title, time, raises) == [title |-> title, time |-> time, raises |-> raises]

\* The body of `for event_elem in event_containers`: the event appended, or
\* None when the element is skipped by a `continue`.
ParseElement(event_elem) ==
    IF event_elem.raises THEN None
    ELSE IF event_elem.title = None THEN None
    ELSE IF event_elem.time = None THEN None
    ELSE LET parsed == _parse_datetime(Val(event_elem.time))
         IN  IF parsed[1] = None THEN None
             ELSE Some(FoodTruckEvent("roulette", Val(event_elem.title),
                                      Val(parsed[1]), parsed[2]))

RECURSIVE ParseElements(_)
ParseElements(event_containers) ==
    IF event_containers = <<>> THEN <<>>
    ELSE LET events == ParseElements(SubSeq(event_containers, 1,
                                            Len(event_containers) - 1))
             event == ParseElement(event_containers[Len(event_containers)])
         IN  IF event = None THEN events ELSE Append(events, Val(event))

\* Variant: what the fetch raised is let through as it is.
ParseFailure_Reraised(e) == Raises([class |-> e, message |-> <<e>>])

\* `raise ValueError(f"Failed to parse brewery website: {str(e)}")`
ParseFailure(e) ==
    Raises([class |-> "ValueError", message |-> <<"Failed to parse brewery website: ", e>>])

\* RouletteParser.parse
parse(fetched, event_containers, date_today) ==
    IF fetched # "ok" THEN ParseFailure(fetched)
    ELSE Returns(BaseFilterValidEvents(ParseElements(event_containers), date_today))

MaxElements == 2

ElementTitles == {None, Some(""), Some("Jazz Performance")}

\* Texts of the time element: no period, an unreadable date, a date with a
\* time, a date alone, and a date of two days ago.
ElementTimes ==
    { None,
      Some(TimeText(1, Some(4), None)),
      Some(TimeText(2, None, Some([hour |-> 7, minute |-> 0, am_pm |-> "pm"]))),
      Some(TimeText(2, Some(4), Some([hour |-> 7, minute |-> 0, am_pm |-> "pm"]))),
      Some(TimeText(2, Some(5), None)),
      Some(TimeText(2, Some(2), Some([hour |-> 8, minute |-> 0, am_pm |-> "pm"]))) }

EventElements ==
    { EventElement(title, time, FALSE) : title \in ElementTitles, time \in ElementTimes }
    \cup { EventElement(Some("Jazz Performance"), None, TRUE) }

InitRoulette ==
    /\ registry = _parsers
    /\ max_concurrent = default_max_concurrent
    /\ conn = <<>>
    /\ fetches = <<>>
    /\ max_retries = 0
    /\ errors = <<>>
    /\ phase = "page"
    /\ breweries = <<>>
    /\ pc = <<>>
    /\ attempt = <<>>
    /\ result = <<>>
    /\ watched = 0
    /\ hist = <<>>
    /\ sleeps = <<>>
    /\ today = 4
    /\ now = UtcAt(4, 12)
    /\ all_events = <<>>
    /\ returned = NoCall
    /\ prior_errors = FALSE

\* The calendar page has one more event container; `hist` is the page.
PageHasElement ==
    /\ phase = "page"
    /\ Len(hist) < MaxElements
    /\ \E event_elem \in EventElements : hist' = Append(hist, event_elem)
    /\ UNCHANGED <<registry, max_concurrent, conn, fetches, max_retries, errors, phase,
                   breweries, pc, attempt, result, watched, sleeps, today, now,
                   all_events, returned, prior_errors>>

ParseCall ==
    /\ phase = "page"
    /\ \E fetched \in FetchOutcomes :
         returned' = [call |-> "parse", outcome |-> "ended", fetched |-> fetched,
                      result |-> parse(fetched, hist, today)]
    /\ phase' = "parsed"
    /\ UNCHANGED <<registry, max_concurrent, conn, fetches, max_retries, errors, breweries,
                   pc, attempt, result, watched, hist, sleeps, today, now, all_events,
                   prior_errors>>

NextRoulette ==
    \/ PageHasElement
    \/ ParseCall

SpecRoulette == InitRoulette /\ [][NextRoulette]_vars

-----------------------------------------------------------------------------
(* HaikuGenerator.generate_haiku: the retry loop around                        *)
(* _generate_haiku_internal. `hist` lists how the attempts made so far ended,  *)
(* `sleeps` the seconds slept between them, `attempt` is the loop variable.    *)

\* How one _generate_haiku_internal call ends: a cleaned haiku, None for an
\* empty response, or an exception (ValueError for an incomplete haiku).
AttemptOutcomes == {"haiku", "empty", "APITimeoutError", "APIError", "ValueError", "Exception"}

\* The except clause of generate_haiku that takes exception `exc`:
\* APITimeoutError is an APIError, and its clause comes first.
HaikuClause(exc) ==
    IF exc = "APITimeoutError" THEN "timeout"
    ELSE IF exc = "APIError" THEN "api"
    ELSE "other"

\* Variant: the loop runs max_retries times.
AttemptsAllowed_NoFirst(retries) == retries

\* `range(max_retries + 1)`
AttemptsAllowed(retries) == retries + 1

\* The haiku the n-th attempt (from 0) produced.
HaikuOf(n) == <<"haiku", n>>

HaikuReturn(value) == [call |-> "generate_haiku", outcome |-> "returned", value |-> value]

InitHaiku ==
    /\ registry = _parsers
    /\ max_concurrent = default_max_concurrent
    /\ conn = <<>>
    /\ fetches = <<>>
    /\ max_retries \in 0..MaxRetries
    /\ errors = <<>>
    /\ phase = "idle"
    /\ breweries = <<>>
    /\ pc = <<>>
    /\ attempt = 0
    /\ result = <<>>
    /\ watched = 0
    /\ hist = <<>>
    /\ sleeps = <<>>
    /\ today = 2
    /\ now = UtcAt(2, 23)
    /\ all_events \in {<<>>, <<FoodTruckEvent("stoup-ballard", "Taco Truck", Midnight(2), None)>>}
    /\ returned = NoCall
    /\ prior_errors = FALSE

\* generate_haiku(date, events, max_retries) up to the loop: `if not events`.
GenerateHaikuCall ==
    /\ phase = "idle"
    /\ IF all_events = <<>>
       THEN /\ returned' = HaikuReturn(None)
            /\ phase' = "done"
       ELSE /\ returned' = returned
            /\ phase' = IF AttemptsAllowed(max_retries) > 0 THEN "generating" ELSE "exhausted"
    /\ UNCHANGED <<registry, max_concurrent, conn, fetches, max_retries, errors, breweries,
                   pc, attempt, result, watched, hist, sleeps, today, now, all_events,
                   prior_errors>>

\* After the handler of a failed attempt: the next iteration, or the end of the
\* loop when `attempt` was the last value of the range.
NextIteration ==
    /\ attempt' = attempt + 1
    /\ phase' = IF attempt + 1 < AttemptsAllowed(max_retries) THEN "generating"
                ELSE "exhausted"

\* One iteration of the loop: the attempt and what the loop does with its end.
Attempt(ended) ==
    /\ phase = "generating"
    /\ hist' = Append(hist, ended)
    /\ IF ended = "haiku"
       THEN /\ returned' = HaikuReturn(Some(HaikuOf(attempt)))
            /\ phase' = "done"
            /\ UNCHANGED <<attempt, sleeps>>
       ELSE IF ended = "empty"
       THEN /\ returned' = HaikuReturn(None)
            /\ phase' = "done"
            /\ UNCHANGED <<attempt, sleeps>>
       ELSE IF HaikuClause(ended) = "timeout"
       THEN /\ sleeps' = IF attempt < max_retries THEN Append(sleeps, Pow2(attempt))
                         ELSE sleeps
            /\ NextIteration
            /\ UNCHANGED returned
       ELSE IF HaikuClause(ended) = "api"
       THEN /\ phase' = "exhausted"
            /\ UNCHANGED <<attempt, sleeps, returned>>
       ELSE /\ sleeps' = IF attempt < max_retries THEN Append(sleeps, 1) ELSE sleeps
            /\ NextIteration
            /\ UNCHANGED returned
    /\ UNCHANGED <<registry, max_concurrent, conn, fetches, max_retries, errors, breweries,
                   pc, result, watched, today, now, all_events, prior_errors>>

\* `return None` after the loop.
GiveUp ==
    /\ phase = "exhausted"
    /\ returned' = HaikuReturn(None)
    /\ phase' = "done"
    /\ UNCHANGED <<registry, max_concurrent, conn, fetches, max_retries, errors, breweries,
                   pc, attempt, result, watched, hist, sleeps, today, now, all_events,
                   prior_errors>>

NextHaiku ==
    \/ GenerateHaikuCall
    \/ \E ended \in AttemptOutcomes : Attempt(ended)
    \/ GiveUp

SpecHaiku == InitHaiku /\ [][NextHaiku]_vars

-----------------------------------------------------------------------------
(* One source scraped by scrape_all, from the fetches of its parser up to      *)
(* get_errors(): what each parser class makes of a failed fetch_page, and what *)
(* the retry loop of _scrape_brewery makes of that.                            *)

\* What a failed fetch_page raises, as the except clauses of the retry loop see
\* it; aiohttp.ClientResponseError, raised for a non-2xx status, is an
\* aiohttp.ClientError.
FetchRaised(fetched) ==
    CASE fetched = "TimeoutError" -> "asyncio.TimeoutError"
      [] fetched = "ClientError" -> "aiohttp.ClientError"
      [] fetched = "ClientResponseError" -> "aiohttp.ClientError"

\* RouletteParser.parse as the coordinator sees it: the events of the page, or
\* the class of what `except Exception as e` raises.
RouletteParser_parse(fetched, events) ==
    IF fetched # "ok" THEN Raises(Val(ParseFailure(fetched).raised).class) ELSE Returns(events)

\* LittlefieldNYCParser.parse: the whole body is in a try whose
\* `except Exception as e` raises ValueError("Failed to parse Littlefield NYC website: ...").
LittlefieldNYCParser_parse(fetched, events) ==
    IF fetched # "ok" THEN Raises("ValueError") ELSE Returns(events)

\* LittlefieldParser.parse: `except Exception as e: ... return []`
LittlefieldParser_parse(fetched, events) ==
    IF fetched # "ok" THEN Returns(<<>>) ELSE Returns(events)

\* UnionHallParser.parse: `except Exception as e: ... return []`
UnionHallParser_parse(fetched, events) ==
    IF fetched # "ok" THEN Returns(<<>>) ELSE Returns(events)

\* BellHouseParser._parse_month: `except Exception as e: ... return []`
_parse_month(fetched, events) == IF fetched # "ok" THEN <<>> ELSE events

\* BellHouseParser.parse: this month's calendar page and the next one's; the
\* events of this specification are on the first.
BellHouseParser_parse(fetched, events) ==
    Returns(_parse_month(fetched[1], events) \o _parse_month(fetched[2], <<>>))

\* A parser whose parse has no try of its own around fetch_page: what the fetch
\* raises reaches the retry loop.
StoupBallardParser_parse(fetched, events) ==
    IF fetched # "ok" THEN Raises(FetchRaised(fetched)) ELSE Returns(events)

\* The parser classes of this specification with the key each is registered
\* under; LittlefieldNYCParser and BellHouseParser are in no key of the class
\* body and handle a source only after register_parser.
FetchingParsers ==
    << Item("stoup-ballard", "StoupBallardParser"),
       Item("roulette", "RouletteParser"),
       Item("littlefield", "LittlefieldParser"),
       Item("union-hall", "UnionHallParser"),
       Item("littlefield-nyc", "LittlefieldNYCParser"),
       Item("bell-house", "BellHouseParser") >>

\* The pages one call of parse fetches.
FetchesOf(parser_class) == IF parser_class = "BellHouseParser" THEN 2 ELSE 1

\* parser = parser_class(brewery); events = await parser.parse(session)
parser_parse(parser_class, fetched, events) ==
    CASE parser_class = "RouletteParser" -> RouletteParser_parse(fetched[1], events)
      [] parser_class = "LittlefieldNYCParser" -> LittlefieldNYCParser_parse(fetched[1], events)
      [] parser_class = "LittlefieldParser" -> LittlefieldParser_parse(fetched[1], events)
      [] parser_class = "UnionHallParser" -> UnionHallParser_parse(fetched[1], events)
      [] parser_class = "BellHouseParser" -> BellHouseParser_parse(fetched, events)
      [] OTHER -> StoupBallardParser_parse(fetched[1], events)

InitFetch ==
    /\ registry = register_parser(register_parser(_parsers, "littlefield-nyc",
                                                  "LittlefieldNYCParser"),
                                  "bell-house", "BellHouseParser")
    /\ max_concurrent = default_max_concurrent
    /\ conn = <<>>
    /\ fetches = <<>>
    /\ max_retries \in 1..MaxRetries
    /\ errors = <<>>
    /\ phase = "idle"
    /\ breweries = <<>>
    /\ pc = <<>>
    /\ attempt = <<>>
    /\ result = <<>>
    /\ watched = 0
    /\ hist = <<>>
    /\ sleeps = <<>>
    /\ today = 2
    /\ now = UtcAt(2, 23)
    /\ all_events = <<>>
    /\ returned = NoCall
    /\ prior_errors = FALSE

\* scrape_all([brewery]) up to the gather, for a brewery of one of the parsers.
ScrapeSourceCall ==
    /\ phase = "idle"
    /\ returned = NoCall
    /\ \E k \in 1..Len(FetchingParsers) :
         Launch(<<[key |-> FetchingParsers[k].key, name |-> FetchingParsers[k].key]>>, 1)
    /\ errors' = ResetErrors(Aged(errors))
    /\ phase' = "scrape_all"
    /\ fetches' = <<>>
    /\ UNCHANGED <<registry, max_concurrent, conn, max_retries, today, now>>

\* One pass of the loop body of the source's task: parser.parse runs with the
\* outcomes `fetched` of its fetches, which `fetches` keeps for the whole call,
\* and returns or raises into the except clauses.
ParserCalled ==
    /\ phase = "scrape_all"
    /\ pc[1] = "parsing"
    /\ LET parser_class == get_parser(breweries[1].key).value
       IN  \E fetched \in [1..FetchesOf(parser_class) -> FetchOutcomes] :
             \E page \in Pages(breweries[1]) :
               LET ended == parser_parse(parser_class, fetched, page)
               IN  /\ fetches' = fetches \o fetched
                   /\ IF ended.raised = None
                      THEN /\ Finish(1, ended.value, None)
                           /\ hist' = Record(1, "ok")
                           /\ sleeps' = sleeps
                      ELSE LET clause == ExceptClause(Val(ended.raised))
                           IN  /\ hist' = Record(1, Val(ended.raised))
                               /\ IF Retries(clause) /\ ~IsLastAttempt(attempt[1], max_retries)
                                  THEN /\ pc' = [pc EXCEPT ![1] = "sleeping"]
                                       /\ sleeps' = Append(sleeps, wait_time(attempt[1]))
                                       /\ UNCHANGED <<result, attempt>>
                                  ELSE /\ Finish(1, <<>>, Some(ScrapingError(breweries[1],
                                                                            ErrorType(clause))))
                                       /\ sleeps' = sleeps
    /\ UNCHANGED <<registry, max_concurrent, conn, max_retries, errors, phase, breweries,
                   watched, today, now, all_events, returned, prior_errors>>

\* The gather is over: scrape_all aggregates and returns. What the call made of
\* the source stays in hist and sleeps.
ScrapeSourceReturn ==
    /\ phase = "scrape_all"
    /\ Terminal(1)
    /\ errors' = errors \o GatheredErrors(breweries, result, Len(result))
    /\ all_events' = GatheredEvents(result, Len(result))
    /\ returned' = [call |-> "scrape_all", outcome |-> "returned",
                    events |-> _filter_and_sort_events(all_events', now)]
    /\ phase' = "idle"
    /\ UNCHANGED <<registry, max_concurrent, conn, fetches, max_retries, breweries, pc,
                   attempt, result, watched, hist, sleeps, today, now, prior_errors>>

NextFetch ==
    \/ ScrapeSourceCall
    \/ LookupParser(1)
    \/ ParserCalled
    \/ BackoffElapsed(1)
    \/ ScrapeSourceReturn

SpecFetch == InitFetch /\ [][NextFetch]_vars

-----------------------------------------------------------------------------
(* LittlefieldNYCParser.parse after the page is fetched: the events of the     *)
(* JSON-LD blocks, the events mined from the HTML, and the merge of the two.   *)

\* str.lower, on the letters the artist names of this specification are made of.
str_lower(s) ==
    [k \in 1..Len(s) |-> IF s[k] = "A" THEN "a" ELSE IF s[k] = "B" THEN "b" ELSE s[k]]

\* Variant: the artist name is trimmed but its case is kept.
_event_key_CaseSensitive(event) ==
    <<DateOf(Val(event.date)), "|", strip(Val(event.artist_name))>>

\* _event_key: f"{date_str}|{artist_key}", date_str the '%Y-%m-%d' of the date.
_event_key(event) ==
    <<DateOf(Val(event.date)), "|", strip(str_lower(Val(event.artist_name)))>>

\* `if len(events) < 5`
html_threshold == 5

\* Variant: the HTML is parsed also when JSON-LD gave exactly 5 events.
NeedsHtml_AtMost(events) == Len(events) <= html_threshold

NeedsHtml(events) == Len(events) < html_threshold

\* `for event in html_events`, with the set existing_event_keys.
RECURSIVE AppendNew(_, _, _)
AppendNew(events, existing_event_keys, html_events) ==
    IF html_events = <<>> THEN events
    ELSE LET event == Head(html_events)
             event_key == _event_key(event)
         IN  IF event_key \notin existing_event_keys
             THEN AppendNew(Append(events, event), existing_event_keys \cup {event_key},
                            Tail(html_events))
             ELSE AppendNew(events, existing_event_keys, Tail(html_events))

\* The body of parse from `json_ld_events = ...` to `return valid_events`:
\* whether _extract_from_html was called, the list given to filter_valid_events
\* and the list returned.
parse_events(json_ld_events, html_events, date_today) ==
    LET events == json_ld_events
        merged == IF NeedsHtml(events)
                  THEN AppendNew(events,
                                 {_event_key(events[k]) : k \in 1..Len(events)},
                                 html_events)
                  ELSE events
    IN  [call |-> "parse", outcome |-> "returned", html_parsed |-> NeedsHtml(events),
         events |-> merged, valid_events |-> filter_valid_events(merged, date_today)]

MaxJsonLd == 5
MaxHtml == 2

\* What an extraction finds: the same act under two spellings and at two times
\* of November 4, the act on November 5, and another act on November 4.
Extracted ==
    { [artist_name |-> Some(<<"a", "b">>), date |-> Some(Midnight(4) + 20)],
      [artist_name |-> Some(<<" ", "A", "B">>), date |-> Some(Midnight(4) + 21)],
      [artist_name |-> Some(<<"a", "b">>), date |-> Some(Midnight(5) + 20)],
      [artist_name |-> Some(<<"c", "d">>), date |-> Some(Midnight(4) + 20)] }

InitMerge ==
    /\ registry = _parsers
    /\ max_concurrent = default_max_concurrent
    /\ conn = <<>>
    /\ fetches = <<>>
    /\ max_retries = 0
    /\ errors = <<>>
    /\ phase = "page"
    /\ breweries = <<>>
    /\ pc = <<>>
    /\ attempt = <<>>
    /\ result = <<>>
    /\ watched = 0
    /\ hist = <<>>
    /\ sleeps = <<>>
    /\ today = 4
    /\ now = UtcAt(4, 12)
    /\ all_events = <<>>
    /\ returned = NoCall
    /\ prior_errors = FALSE

\* The page has one more JSON-LD event; `all_events` is json_ld_events.
JsonLdEvent ==
    /\ phase = "page"
    /\ Len(all_events) < MaxJsonLd
    /\ \E e \in Extracted :
         all_events' = Append(all_events,
                              ScrapedEvent(Len(all_events) + 1, e.artist_name, e.date))
    /\ UNCHANGED <<registry, max_concurrent, conn, fetches, max_retries, errors, phase,
                   breweries, pc, attempt, result, watched, hist, sleeps, today, now,
                   returned, prior_errors>>

\* The HTML mining would find one more event; `hist` is html_events.
HtmlEvent ==
    /\ phase = "page"
    /\ Len(hist) < MaxHtml
    /\ \E e \in Extracted :
         hist' = Append(hist, ScrapedEvent(MaxJsonLd + Len(hist) + 1, e.artist_name, e.date))
    /\ UNCHANGED <<registry, max_concurrent, conn, fetches, max_retries, errors, phase,
                   breweries, pc, attempt, result, watched, sleeps, today, now, all_events,
                   returned, prior_errors>>

MergeCall ==
    /\ phase = "page"
    /\ returned' = parse_events(all_events, hist, today)
    /\ phase' = "parsed"
    /\ UNCHANGED <<registry, max_concurrent, conn, fetches, max_retries, errors, breweries,
                   pc, attempt, result, watched, hist, sleeps, today, now, all_events,
                   prior_errors>>

NextMerge ==
    \/ JsonLdEvent
    \/ HtmlEvent
    \/ MergeCall

SpecMerge == InitMerge /\ [][NextMerge]_vars

-----------------------------------------------------------------------------
(* Two scrape_all calls on one ScraperCoordinator, run as two coroutines of one *)
(* event loop. Here breweries, pc, result and returned hold one entry for each  *)
(* call, the call started first at 1; errors is the one self.errors, and hist   *)
(* the order in which the calls began and returned.                            *)

Calls == {1, 2}

\* The argument of each call; the two calls scrape different sources.
CallArguments(v) ==
    IF v = 1
    THEN { <<Brewery(1, TRUE)>>, <<Brewery(1, TRUE), Brewery(2, TRUE)>> }
    ELSE { <<Brewery(3, TRUE)>>, <<Brewery(3, TRUE), Brewery(4, FALSE)>> }

\* What the _scrape_brewery task of a source ends with: events or an error
\* returned, or, for a key the registry does not have, the ValueError of the lookup.
TaskOutcomes(b) ==
    IF HasKey(registry, b.key)
    THEN { TaskReturn(<<FoodTruckEvent(b.key, "Taco Truck", Midnight(4), None)>>, None),
           TaskReturn(<<>>, Some(ScrapingError(b, "Network Timeout"))) }
    ELSE { TaskRaise("ValueError") }

InitOverlap ==
    /\ registry = _parsers
    /\ max_concurrent = default_max_concurrent
    /\ conn = <<>>
    /\ fetches = <<>>
    /\ max_retries = 3
    /\ errors = <<>>
    /\ phase = "idle"
    /\ breweries = [v \in Calls |-> <<>>]
    /\ pc = [v \in Calls |-> "not called"]
    /\ attempt = <<>>
    /\ result = [v \in Calls |-> <<>>]
    /\ watched = 0
    /\ hist = <<>>
    /\ sleeps = <<>>
    /\ today = 2
    /\ now = UtcAt(2, 23)
    /\ all_events = <<>>
    /\ returned = [v \in Calls |-> NoCall]
    /\ prior_errors = FALSE

\* scrape_all(brews) runs up to `await asyncio.gather(...)`: self.errors = [].
\* The second call begins once the first has, whether or not the first is over.
OverlapCall(v) ==
    /\ pc[v] = "not called"
    /\ v = 2 => pc[1] # "not called"
    /\ \E brews \in CallArguments(v) :
         /\ breweries' = [breweries EXCEPT ![v] = brews]
         /\ result' = [result EXCEPT ![v] = [i \in 1..Len(brews) |-> Pending]]
    /\ errors' = ResetErrors(errors)
    /\ pc' = [pc EXCEPT ![v] = "gathering"]
    /\ hist' = Append(hist, <<"call", v>>)
    /\ UNCHANGED <<registry, max_concurrent, conn, fetches, max_retries, phase, attempt,
                   watched, sleeps, today, now, all_events, returned, prior_errors>>

\* A task of a call that is in its gather ends.
OverlapTaskEnds(v, i) ==
    /\ pc[v] = "gathering"
    /\ i \in 1..Len(result[v])
    /\ result[v][i] = Pending
    /\ \E outcome \in TaskOutcomes(breweries[v][i]) :
         result' = [result EXCEPT ![v][i] = outcome]
    /\ UNCHANGED <<registry, max_concurrent, conn, fetches, max_retries, errors, phase,
                   breweries, pc, attempt, watched, hist, sleeps, today, now, all_events,
                   returned, prior_errors>>

\* The gather of a call is over: the loop over its results appends to what
\* self.errors is now, and the call returns.
OverlapReturn(v) ==
    /\ pc[v] = "gathering"
    /\ \A i \in 1..Len(result[v]) : result[v][i] # Pending
    /\ errors' = errors \o GatheredErrors(breweries[v], result[v], Len(result[v]))
    /\ returned' = [returned EXCEPT ![v] =
                      [call |-> "scrape_all", outcome |-> "returned",
                       events |-> _filter_and_sort_events(
                                      GatheredEvents(result[v], Len(result[v])), now)]]
    /\ pc' = [pc EXCEPT ![v] = "returned"]
    /\ hist' = Append(hist, <<"return", v>>)
    /\ UNCHANGED <<registry, max_concurrent, conn, fetches, max_retries, phase, breweries,
                   attempt, result, watched, sleeps, today, now, all_events, prior_errors>>

NextOverlap ==
    \/ \E v \in Calls : OverlapCall(v)
    \/ \E v \in Calls : \E i \in 1..MaxSources : OverlapTaskEnds(v, i)
    \/ \E v \in Calls : OverlapReturn(v)

SpecOverlap == InitOverlap /\ [][NextOverlap]_vars

-----------------------------------------------------------------------------
(* Properties of the connection cap, under SpecPool.                           *)

WaitsForConnection(i) == i \in 1..Len(conn) /\ conn[i] = "waiting"

HoldsConnection(i) == i \in 1..Len(conn) /\ conn[i] = "held"

-----------------------------------------------------------------------------
(* Properties of ParserRegistry, under SpecRegistry.                           *)

InRegistry == phase = "registry"

\* The register_parser calls made so far that gave key.
CallsFor(key) == {n \in 1..Len(hist) : hist[n].key = key}

LastCallFor(key) == CHOOSE n \in CallsFor(key) : \A m \in CallsFor(key) : m <= n

\* What the claim says get_parser(key) gives: the class of the latest
\* register_parser call for key, else the class of the class body, else ValueError.
LastWritten(key) ==
    IF CallsFor(key) # {} THEN Returns(hist[LastCallFor(key)].parser_class)
    ELSE IF HasKey(_parsers, key) THEN Returns(GetItem(_parsers, key))
    ELSE Raises("ValueError")

AllKeys == LookedUpKeys \cup {_parsers[k].key : k \in 1..Len(_parsers)}

\* C19: after any sequence of register_parser calls, get_parser(key) gives for
\* every key the class of the latest register_parser call for that key, or the
\* class of the class body when there was none (ValueError when the key was
\* never there); so a call for one key changes no other key's class, and
\* get_parser calls in between change nothing.
C19_LastWriteWins ==
    InRegistry =>
      /\ \A key \in AllKeys : get_parser(key) = LastWritten(key)
      /\ returned.call = "get_parser" => returned.result = LastWritten(returned.key)

\* Two calls for a key of the class body: get_parser gives the class of the second.
C19_Witness ==
    /\ InRegistry
    /\ hist = <<Item("union-hall", "BellHouseParser"), Item("bell-house", "BellHouseParser"),
                Item("union-hall", "LittlefieldNYCParser")>>
    /\ returned.call = "get_parser"
    /\ returned.key = "union-hall"
    /\ returned.result = Returns("LittlefieldNYCParser")
    /\ get_parser("stoup-ballard") = Returns("StoupBallardParser")

\* The keys of the first n register_parser calls that the class body has not,
\* each once, in the order of their first call.
RECURSIVE AddedKeys(_)
AddedKeys(n) ==
    IF n = 0 THEN <<>>
    ELSE IF HasKey(_parsers, hist[n].key) \/ \E m \in 1..(n - 1) : hist[m].key = hist[n].key
    THEN AddedKeys(n - 1)
    ELSE Append(AddedKeys(n - 1), hist[n].key)

FirstInsertionOrder == [k \in 1..Len(_parsers) |-> _parsers[k].key] \o AddedKeys(Len(hist))

\* C20: get_supported_keys gives the keys of the class body in its order,
\* followed by every other key given to register_parser in the order of its
\* first call, each key once: a call for a key that is there leaves the order
\* as it is, a call for a new key puts it at the end.
C20_RegistryOrder ==
    InRegistry =>
      /\ get_supported_keys = FirstInsertionOrder
      /\ \A i, j \in 1..Len(get_supported_keys) :
           get_supported_keys[i] = get_supported_keys[j] => i = j
      /\ returned.call = "get_supported_keys" => returned.keys = FirstInsertionOrder

\* A new key, the first key of the class body again, the new key again: the
\* first key is still first and the new key is once at the end.
C20_Witness ==
    /\ InRegistry
    /\ hist = <<Item("bell-house", "BellHouseParser"), Item("stoup-ballard", "BellHouseParser"),
                Item("bell-house", "LittlefieldNYCParser")>>
    /\ returned.call = "get_supported_keys"
    /\ Len(returned.keys) = Len(_parsers) + 1
    /\ returned.keys[1] = "stoup-ballard"
    /\ returned.keys[Len(returned.keys)] = "bell-house"

-----------------------------------------------------------------------------
(* Properties of _scrape_brewery, stated on the watched task.                  *)

Watching == Running /\ watched \in Tasks

AllOf(seq, classes) == \A k \in 1..Len(seq) : seq[k] \in classes

Failed(i, error_type) ==
    /\ pc[i] = "done"
    /\ result[i] = TaskReturn(<<>>, Some([brewery |-> breweries[i],
                                          error_type |-> error_type,
                                          timestamp |-> "this_call"]))

Succeeded(i) == pc[i] = "done" /\ result[i].kind = "return" /\ result[i].error = None

\* C1: with max_retries >= 1, a task whose every parse call so far raised a
\* timeout has made at most max_retries calls; it goes on (another call or a
\* backoff sleep) until it has made exactly max_retries calls, and is then
\* finished with no events and one error of type 'Network Timeout'.
C1_RetryExhaustion ==
    (Watching /\ max_retries >= 1 /\ hist # <<>>
       /\ AllOf(hist, {"asyncio.TimeoutError", "aiohttp.ServerTimeoutError"}))
    => /\ Len(hist) <= max_retries
       /\ Len(hist) < max_retries => pc[watched] \in {"sleeping", "parsing"}
       /\ Len(hist) = max_retries => Failed(watched, "Network Timeout")

C1_Witness ==
    /\ Watching
    /\ max_retries = 3
    /\ hist = <<"asyncio.TimeoutError", "asyncio.TimeoutError", "asyncio.TimeoutError">>
    /\ Failed(watched, "Network Timeout")

\* C2: a ValueError raised by parser.parse is the task's last parse call: the
\* task is finished at once with no events and one error of type 'Parser
\* Error', and it slept only after the calls before that one.
C2_FailFastOnParseError ==
    Watching =>
      \A k \in 1..Len(hist) :
        hist[k] = "ValueError"
        => /\ k = Len(hist)
           /\ Failed(watched, "Parser Error")
           /\ Len(sleeps) = k - 1

C2_Witness ==
    /\ Watching
    /\ max_retries = 3
    /\ hist = <<"ValueError">>
    /\ sleeps = <<>>
    /\ Failed(watched, "Parser Error")

\* C10: a task whose every parse call so far raised aiohttp.ClientError has
\* made at most max_retries calls, with one backoff sleep after each call but
\* the max_retries-th, and once it has made max_retries calls it is finished
\* with one error of type 'Network Error'; a task whose parse call returns after only
\* such failures is finished with the parser's events and no error.
C10_TransportErrorRetry ==
    (Watching /\ max_retries >= 1 /\ hist # <<>>)
    => /\ AllOf(hist, {"aiohttp.ClientError"})
          => /\ Len(hist) <= max_retries
             /\ Len(hist) < max_retries => pc[watched] \in {"sleeping", "parsing"}
             /\ Len(hist) = max_retries => Failed(watched, "Network Error")
             /\ Len(sleeps) = IF pc[watched] = "done" THEN Len(hist) - 1 ELSE Len(hist)
       /\ (AllOf(SubSeq(hist, 1, Len(hist) - 1), {"aiohttp.ClientError"})
             /\ hist[Len(hist)] = "ok")
          => /\ Succeeded(watched)
             /\ result[watched].events \in Pages(breweries[watched])
             /\ Len(sleeps) = Len(hist) - 1

C10_Witness ==
    /\ Watching
    /\ max_retries = 3
    /\ hist = <<"aiohttp.ClientError", "aiohttp.ClientError", "aiohttp.ClientError">>
    /\ Len(sleeps) = 2
    /\ Failed(watched, "Network Error")

\* The exception classes none of the first three except clauses names.
Uncaught ==
    { exc \in ExceptionClasses :
        ~IsInstance(exc, {"asyncio.TimeoutError", "aiohttp.ServerTimeoutError",
                          "aiohttp.ClientError", "ValueError"}) }

\* C11: with max_retries >= 1, a task whose every parse call so far raised an
\* exception that is neither a timeout, a transport error nor a ValueError has
\* made at most max_retries calls; it goes on until it has made exactly
\* max_retries calls, with a backoff sleep after each but the last, and is then
\* finished with no events and one error of type 'Unexpected Error'.
C11_CatchAllRetry ==
    (Watching /\ max_retries >= 1 /\ hist # <<>> /\ AllOf(hist, Uncaught))
    => /\ Len(hist) <= max_retries
       /\ Len(hist) < max_retries => pc[watched] \in {"sleeping", "parsing"}
       /\ Len(hist) = max_retries => Failed(watched, "Unexpected Error")
       /\ pc[watched] = "done" => Len(sleeps) = max_retries - 1

C11_Witness ==
    /\ Watching
    /\ max_retries = 3
    /\ hist = <<"RuntimeError", "RuntimeError", "RuntimeError">>
    /\ Len(sleeps) = 2
    /\ Failed(watched, "Unexpected Error")

\* The outcomes of a parse call after which the loop sleeps and tries again.
RetryableFailure(outcome) == outcome \notin {"ok", "ValueError"}

\* C12 (as claimed): the sleep after the n-th parse call of a task, n counted
\* from one, lasts 2^n seconds.
C12_BackoffDuration ==
    Watching => \A n \in 1..Len(sleeps) : sleeps[n] = Pow2(n)

\* C12 (amended): the n-th sleep of a task follows the retryable failure of its
\* n-th parse call, n in 1..max_retries-1, and lasts 2^(n-1) seconds (1, 2,
\* 4, ...); while the task sleeps no parse call runs, and the call that runs
\* after the n-th sleep is the (n+1)-th.
C12_BackoffFromOneSecond ==
    Watching =>
      /\ \A n \in 1..Len(sleeps) :
           /\ sleeps[n] = Pow2(n - 1)
           /\ n <= max_retries - 1
           /\ n <= Len(hist) /\ RetryableFailure(hist[n])
      /\ pc[watched] = "sleeping" => Len(sleeps) = Len(hist)
      /\ pc[watched] = "parsing"
         => Len(sleeps) = Len(hist) /\ attempt[watched] = Len(sleeps)

\* The third call runs after sleeps of 1 s and 2 s.
C12_Witness ==
    /\ Watching
    /\ max_retries = 3
    /\ pc[watched] = "parsing"
    /\ Len(hist) = 2
    /\ sleeps = <<1, 2>>

\* C13: a task whose n-th parse call returns, n in 1..max_retries, after n-1
\* retryable failures, is finished with the events of that call and no error,
\* and self.errors holds no error made during this call for its source; once a
\* coordinator call has returned, self.errors holds no error for a source whose
\* task returned no error.
C13_SuccessRecordsNoError ==
    /\ (Watching /\ hist # <<>> /\ hist[Len(hist)] = "ok")
       => /\ Len(hist) <= max_retries
          /\ \A k \in 1..(Len(hist) - 1) : RetryableFailure(hist[k])
          /\ pc[watched] = "done"
          /\ result[watched].kind = "return"
          /\ result[watched].error = None
          /\ result[watched].events \in Pages(breweries[watched])
          /\ \A k \in 1..Len(get_errors) :
                get_errors[k].brewery = breweries[watched]
                => get_errors[k].timestamp = "earlier_call"
    /\ (phase = "idle" /\ returned.outcome = "returned")
       => \A i \in Tasks :
            (result[i].kind = "return" /\ result[i].error = None)
            => \A k \in 1..Len(get_errors) : get_errors[k].brewery # breweries[i]

\* Two retryable failures, then a call that returns three events.
C13_Witness ==
    /\ Watching
    /\ max_retries = 3
    /\ hist = <<"aiohttp.ClientError", "asyncio.TimeoutError", "ok">>
    /\ Succeeded(watched)
    /\ Len(result[watched].events) = 3
    /\ get_errors = <<>>

\* C18: a task has at most one parse call running: while its (n+1)-th call
\* runs, its first n calls have all ended in a retryable failure and each was
\* followed by a sleep that is over; while it sleeps, every call it began has
\* ended; before its first call and after its last, none runs.
C18_SequentialRetries ==
    Watching =>
      /\ pc[watched] = "parsing"
         => /\ Len(hist) = attempt[watched]
            /\ Len(sleeps) = attempt[watched]
            /\ \A k \in 1..Len(hist) : RetryableFailure(hist[k])
      /\ pc[watched] = "sleeping"
         => /\ Len(hist) = attempt[watched] + 1
            /\ Len(sleeps) = Len(hist)
      /\ pc[watched] = "lookup" => hist = <<>> /\ sleeps = <<>>
      /\ Terminal(watched) => Len(sleeps) = IF hist = <<>> THEN 0 ELSE Len(hist) - 1

\* The second call of one task runs while the first call of another does.
C18_Witness ==
    /\ Watching
    /\ Len(breweries) = 2
    /\ watched = 1
    /\ pc[1] = "parsing" /\ attempt[1] = 1 /\ Len(hist) = 1 /\ Len(sleeps) = 1
    /\ pc[2] = "parsing" /\ attempt[2] = 0

\* C4 (as claimed): a task whose brewery key has no registered parser ends
\* with no events and one error of type 'Configuration Error', without any
\* parse call or sleep.
C4_ConfigurationError ==
    \A i \in Tasks :
      (Running /\ ~HasKey(registry, breweries[i].key) /\ Terminal(i))
      => /\ Failed(i, "Configuration Error")
         /\ (i = watched => hist = <<>> /\ sleeps = <<>>)

-----------------------------------------------------------------------------
(* Properties of scrape_all and scrape_one.                                    *)

AfterScrapeAll == phase = "idle" /\ returned.call = "scrape_all"

TaskFailed(i) == result[i].kind = "raise" \/ result[i].error # None

Contains(seq, x) == \E k \in 1..Len(seq) : seq[k] = x

\* C3: when scrape_all is over and exactly one of its sources failed (an error
\* returned or an exception raised by its task), the call has returned, its
\* result holds every event of the other sources dated today .. today + 7, and
\* self.errors holds exactly one error, owned by the failing source.
C3_Isolation ==
    AfterScrapeAll =>
      \A f \in Tasks :
        (TaskFailed(f) /\ \A i \in Tasks \ {f} : ~TaskFailed(i))
        => /\ returned.outcome = "returned"
           /\ \A i \in Tasks \ {f} :
                \A k \in 1..Len(result[i].events) :
                  LET e == result[i].events[k]
                  IN  (today <= e.date \div 24 /\ e.date \div 24 <= today + 7)
                      => Contains(returned.events, e)
           /\ Len(get_errors) = 1
           /\ get_errors[1].brewery = breweries[f]

C3_Witness ==
    /\ AfterScrapeAll
    /\ Len(breweries) = 2
    /\ result[1].kind = "raise"
    /\ ~TaskFailed(2)
    /\ Len(returned.events) = 2
    /\ returned.events[1].brewery_key = breweries[2].key
    /\ Len(get_errors) = 1

\* C5 (as claimed): no coordinator call ends by raising.
C5_NeverRaises == returned.outcome # "raised"

\* C6: when scrape_all is over, self.errors holds only errors created during
\* this call, each owned by a source of this call whose task failed, and none
\* for a source whose task succeeded, whatever the call before left behind;
\* has_errors() is true exactly when get_errors() is not empty.
C6_ErrorsResetPerRun ==
    AfterScrapeAll =>
      /\ \A k \in 1..Len(get_errors) :
           /\ get_errors[k].timestamp = "this_call"
           /\ \E i \in Tasks : get_errors[k].brewery = breweries[i] /\ TaskFailed(i)
      /\ \A i \in Tasks :
           ~TaskFailed(i) => \A k \in 1..Len(get_errors) : get_errors[k].brewery # breweries[i]
      /\ has_errors <=> get_errors # <<>>

\* The call before left errors, and this scrape_all, with no failing source, none.
C6_Witness ==
    /\ AfterScrapeAll
    /\ prior_errors
    /\ \A i \in Tasks : ~TaskFailed(i)
    /\ get_errors = <<>>
    /\ ~has_errors

\* C14: scrape_all has not returned while one of its tasks is not finished, and
\* a finished task keeps its own outcome whatever the others do; once it has
\* returned, every task is finished, the aggregate holds every event of every
\* task that returned events, and self.errors holds the error of every task
\* that returned one and an error for every task that raised.
C14_AwaitAll ==
    /\ phase = "scrape_all"
       => /\ returned = NoCall
          /\ \A i \in Tasks : Terminal(i) <=> result[i] # Pending
    /\ AfterScrapeAll
       => \A i \in Tasks :
            /\ Terminal(i)
            /\ result[i] # Pending
            /\ result[i].kind = "return"
               => /\ \A k \in 1..Len(result[i].events) :
                       Contains(all_events, result[i].events[k])
                  /\ result[i].error # None => Contains(get_errors, Val(result[i].error))
            /\ result[i].kind = "raise"
               => \E k \in 1..Len(get_errors) : get_errors[k].brewery = breweries[i]

\* The first source used up its three attempts, sleeping twice; the second
\* returned three events, which are in the aggregate.
C14_Witness ==
    /\ AfterScrapeAll
    /\ max_retries = 3
    /\ Len(breweries) = 2
    /\ result[1].kind = "return" /\ result[1].error # None
    /\ Val(result[1].error).error_type = "Network Timeout"
    /\ result[2].kind = "return" /\ result[2].error = None
    /\ Len(result[2].events) = 3
    /\ all_events = result[2].events
    /\ get_errors = <<Val(result[1].error)>>

ErrorsOwnedBy(b) == {k \in 1..Len(get_errors) : get_errors[k].brewery = b}

\* C15: once scrape_all has returned, self.errors holds exactly one error for
\* each source whose task failed, none for any other source and none that is
\* not a source's, so that it is never longer than the list of sources.
C15_OneErrorPerFailedSource ==
    AfterScrapeAll =>
      /\ \A i \in Tasks :
           Cardinality(ErrorsOwnedBy(breweries[i])) = IF TaskFailed(i) THEN 1 ELSE 0
      /\ \A k \in 1..Len(get_errors) : \E i \in Tasks : get_errors[k].brewery = breweries[i]
      /\ Len(get_errors) <= Len(breweries)

\* Both sources failed after three attempts each: two errors.
C15_Witness ==
    /\ AfterScrapeAll
    /\ max_retries = 3
    /\ Len(breweries) = 2
    /\ Len(get_errors) = 2
    /\ get_errors[1].error_type = "Network Error"
    /\ get_errors[2].error_type = "Unexpected Error"
    /\ result[2].kind = "return"

AfterScrapeOne == phase = "idle" /\ returned.call = "scrape_one"

\* C16 (as claimed): once scrape_one is over it has returned the filtered and
\* sorted events of its source and the source's error or None, and self.errors
\* is that error alone when there is one and empty when there is none.
C16_ScrapeOne ==
    AfterScrapeOne =>
      /\ returned.outcome = "returned"
      /\ returned.events = _filter_and_sort_events(result[1].events, now)
      /\ returned.error = result[1].error
      /\ get_errors = IF result[1].error # None THEN <<Val(result[1].error)>> ELSE <<>>

-----------------------------------------------------------------------------
(* Properties of _filter_and_sort_events, under SpecSort.                      *)

Filtered == phase = "filtered"

Output == returned.events

\* C7: an event is in the output exactly when its calendar day d satisfies
\* today <= d <= today + 7, and the output holds nothing but input events.
C7_WindowFilter ==
    Filtered =>
      /\ \A k \in 1..Len(all_events) :
           Contains(Output, all_events[k])
           <=> (today <= all_events[k].date \div 24 /\ all_events[k].date \div 24 <= today + 7)
      /\ \A k \in 1..Len(Output) : Contains(all_events, Output[k])

\* Today is November 2: events of November 2 and 9 are kept, one of November 10 is dropped.
C7_Witness ==
    /\ Filtered
    /\ today = 2
    /\ Len(all_events) = 3
    /\ all_events[1].date = Midnight(9) /\ Contains(Output, all_events[1])
    /\ all_events[2].date = Midnight(10) /\ ~Contains(Output, all_events[2])
    /\ all_events[3].date = Midnight(2) /\ Contains(Output, all_events[3])

KeyDate(e) == e.date
KeyTime(e) == IF e.start_time = None THEN e.date ELSE e.start_time[1]
KeyEqual(a, b) == KeyDate(a) = KeyDate(b) /\ KeyTime(a) = KeyTime(b)
KeyAtMost(a, b) ==
    KeyDate(a) < KeyDate(b) \/ (KeyDate(a) = KeyDate(b) /\ KeyTime(a) <= KeyTime(b))

\* C8: the output is in non-decreasing order of (date, start_time if present
\* else date), and two events with equal keys are in the order they had in
\* the input.
C8_SortOrder ==
    Filtered =>
      \A i, j \in 1..Len(Output) :
        i < j => /\ KeyAtMost(Output[i], Output[j])
                 /\ KeyEqual(Output[i], Output[j])
                    => Output[i].food_truck_name < Output[j].food_truck_name

\* Two events with equal keys and a third with a smaller key that came last.
C8_Witness ==
    /\ Filtered
    /\ Len(Output) = 3
    /\ KeyEqual(Output[2], Output[3])
    /\ Output[1].food_truck_name = 3
    /\ Output[2].food_truck_name = 1
    /\ Output[3].food_truck_name = 2

SameDay(a, b) == a.date \div 24 = b.date \div 24

\* C9 (as claimed): of two events of the output on the same calendar day, one
\* without and one with a start time, the one without comes first.
C9_TimelessFirst ==
    Filtered =>
      \A i, j \in 1..Len(Output) :
        (SameDay(Output[i], Output[j]) /\ Output[i].start_time = None
           /\ Output[j].start_time # None)
        => i < j

\* C9 (amended): of two events of the output with the same date, one without a
\* start time and one whose start time is later than that date (midnight), the
\* one without comes first, whatever their order in the input; when the start
\* time is the date itself (a start at midnight) the keys are equal and the two
\* keep their input order.
C9_TimelessFirstUnlessMidnight ==
    Filtered =>
      \A i, j \in 1..Len(Output) :
        (Output[i].date = Output[j].date /\ Output[i].start_time = None
           /\ Output[j].start_time # None)
        => /\ Output[j].start_time[1] > Output[j].date => i < j
           /\ Output[j].start_time[1] = Output[j].date
              => (i < j <=> Output[i].food_truck_name < Output[j].food_truck_name)

\* The timed event (09:00) came first in the input and is second in the output.
C9_Witness ==
    /\ Filtered
    /\ Len(Output) = 2
    /\ Output[1].start_time = None
    /\ Output[2].start_time = Some(Output[1].date + 9)
    /\ Output[1].food_truck_name = 2
    /\ Output[2].food_truck_name = 1

-----------------------------------------------------------------------------
(* Properties of the entry points, under SpecMain.                             *)

Exited == phase = "exited"

\* The events the sources of the run produced inside the window.
Found == SelectSeq(all_events, LAMBDA e : InNextWeek(e, now))

\* C21: the error summary an entry point prints has each distinct
\* to_user_message() text of the recorded errors exactly once, in the order of
\* first occurrence, whatever the number of ScrapingError objects recorded.
C21_ErrorDeduplication ==
    (Exited /\ returned.printed # None) =>
        Val(returned.printed).error_lines = user_messages(errors)

\* C22: main returns 0 when events were found and no source failed, 1 when
\* sources failed and no event was found or the configuration file is missing,
\* and 2 when events were found and sources failed.
C22_ExitCodes ==
    Exited =>
        IF returned.critical = Some("FileNotFoundError") THEN returned.exit_code = 1
        ELSE /\ (Found # <<>> /\ errors = <<>>) => returned.exit_code = 0
             /\ (Found = <<>> /\ errors # <<>>) => returned.exit_code = 1
             /\ (Found # <<>> /\ errors # <<>>) => returned.exit_code = 2

\* C37 (as claimed): in both entry points deploy_to_web and preview_locally are
\* called only when events were found; with --deploy (--preview) they are called
\* whenever events were found, errors or not; and a run that found no event and
\* recorded no error returns 0.
C37_PublishingGatedOnEvents ==
    (Exited /\ returned.critical # Some("FileNotFoundError")) =>
        /\ (returned.deployed \/ returned.previewed) => Found # <<>>
        /\ (Found # <<>> /\ returned.args.deploy) => returned.deployed
        /\ (Found # <<>> /\ returned.args.preview) => returned.previewed
        /\ (Found = <<>> /\ errors = <<>>) => returned.exit_code = 0

-----------------------------------------------------------------------------
(* Properties of filter_valid_events, under SpecValid.                         *)

\* What the claim asks of a kept event: a title of at least 2 characters after
\* trimming, and a date not earlier than yesterday.
TitleOk(event) ==
    event.artist_name # None /\ Len(strip(Val(event.artist_name))) >= 2

DateOk(event) == event.date # None /\ DateOf(Val(event.date)) >= today - 1

\* C23: filter_valid_events returns, in input order, exactly the events whose
\* title has at least 2 characters after trimming and whose date is present and
\* not before yesterday; filtering its result again changes nothing.
C23_FilterValidEvents ==
    /\ phase \in {"filtered", "refiltered"} =>
         returned.events = SelectSeq(hist, LAMBDA e : TitleOk(e) /\ DateOk(e))
    /\ phase = "refiltered" => returned.events = hist

\* An event of yesterday and an event of today are kept, in input order, next to
\* a dropped one, and the second application has run.
C23_Witness ==
    /\ phase = "refiltered"
    /\ Len(all_events) > Len(returned.events)
    /\ Len(returned.events) = 2
    /\ DateOf(Val(returned.events[1].date)) = today - 1
    /\ DateOf(Val(returned.events[2].date)) = today
    /\ returned.events[1].n < returned.events[2].n

-----------------------------------------------------------------------------
(* Properties of _parse_datetime, under SpecDatetime.                          *)

ParsedDatetime == returned.call = "_parse_datetime"

\* The text is a date and a clock time h:mm am/pm with h in 1..12, mm in 0..59.
ClockText ==
    /\ ParsedDatetime
    /\ returned.time_text.parts >= 2
    /\ returned.time_text.date # None
    /\ returned.time_text.time # None
    /\ Val(returned.time_text.time).hour \in 1..12
    /\ Val(returned.time_text.time).minute \in 0..59

\* The hour of the day the claim gives for h am/pm.
ClaimedHour(h, suffix) ==
    IF suffix \in {"am", "AM"} THEN (IF h = 12 THEN 0 ELSE h)
    ELSE (IF h = 12 THEN 12 ELSE h + 12)

\* C26: for h in 1..12, m in 0..59 and am/pm the start time is on the day of the
\* parsed date, at hour 0 for 12 am, 12 for 12 pm, h for h am, h + 12 for h pm,
\* and minute m; the end time is always None; a text that does not split into
\* date and time gives (None, None, None).
C26_TwelveHourClock ==
    /\ ClockText =>
         LET t == Val(returned.time_text.time)
             start_time == Val(returned.result[2])
         IN  /\ returned.result[1] = Some([day |-> Val(returned.time_text.date),
                                           hour |-> 0, minute |-> 0])
             /\ returned.result[2] # None
             /\ start_time.day = Val(returned.time_text.date)
             /\ start_time.hour = ClaimedHour(t.hour, t.am_pm)
             /\ start_time.minute = t.minute
    /\ ParsedDatetime => returned.result[3] = None
    /\ (ParsedDatetime /\ returned.time_text.parts < 2) =>
         returned.result = <<None, None, None>>

\* "12:59 am" on November 4 has been parsed.
C26_Witness ==
    /\ ClockText
    /\ Val(returned.time_text.time) = [hour |-> 12, minute |-> 59, am_pm |-> "am"]
    /\ returned.result[2] = Some([day |-> 4, hour |-> 0, minute |-> 59])

-----------------------------------------------------------------------------
(* Properties of RouletteParser.parse, under SpecRoulette.                     *)

ParseEnded == phase = "parsed" /\ returned.call = "parse"

\* The containers of the page that do not fail when they are read.
Readable == SelectSeq(hist, LAMBDA el : ~el.raises)

\* C25: parse raises nothing but ValueError('Failed to parse brewery website:
\* ...'), and does so whenever fetching the page fails; a container that fails
\* is skipped and the events of the other containers are returned as if it were
\* not on the page.
C25_OnlyValueError ==
    ParseEnded =>
        /\ returned.result.raised # None =>
             /\ Val(returned.result.raised).class = "ValueError"
             /\ Val(returned.result.raised).message[1] = "Failed to parse brewery website: "
        /\ returned.fetched # "ok" => returned.result.raised # None
        /\ returned.fetched = "ok" =>
             /\ returned.result.raised = None
             /\ returned.result.value = parse("ok", Readable, today).value

\* A network error has left parse as ValueError.
C25_Witness ==
    /\ ParseEnded
    /\ returned.fetched = "ClientError"
    /\ returned.result.raised # None
    /\ Val(returned.result.raised).class = "ValueError"

\* A page with a failing container and a good one has given the good one's event.
C25_WitnessSkipped ==
    /\ ParseEnded
    /\ returned.fetched = "ok"
    /\ \E k \in 1..Len(hist) : hist[k].raises
    /\ Len(returned.result.value) = 1

-----------------------------------------------------------------------------
(* Properties of generate_haiku, under SpecHaiku.                              *)

HaikuDone == phase = "done"

AttemptFailed(k) == hist[k] \notin {"haiku"}

\* C27: generate_haiku always returns; it makes no attempt and returns None for
\* an empty event list, and otherwise between 1 and max_retries + 1 attempts
\* (one when max_retries = 0); it returns the haiku of the first successful
\* attempt, which is the last one made, and None when every attempt failed.
C27_HaikuRetryLoop ==
    /\ Len(hist) <= max_retries + 1
    /\ \A k \in 1..(Len(hist) - 1) : AttemptFailed(k)
    /\ HaikuDone =>
         /\ returned.outcome = "returned"
         /\ all_events = <<>> => (hist = <<>> /\ returned.value = None)
         /\ all_events # <<>> =>
              /\ Len(hist) >= 1
              /\ max_retries = 0 => Len(hist) = 1
              /\ hist[Len(hist)] = "haiku" =>
                   returned.value = Some(HaikuOf(Len(hist) - 1))
              /\ (\A k \in 1..Len(hist) : AttemptFailed(k)) => returned.value = None

\* A failure and then a success with max_retries = 1: the haiku of the second
\* attempt is returned.
C27_Witness ==
    /\ HaikuDone
    /\ max_retries = 1
    /\ hist = <<"Exception", "haiku">>
    /\ returned.value = Some(HaikuOf(1))

-----------------------------------------------------------------------------
(* Further properties of _scrape_brewery and scrape_all, under Spec.           *)

\* The kind of error the claims give for a failure of class exc.
ClaimedKind(exc) ==
    IF exc \in {"asyncio.TimeoutError", "aiohttp.ServerTimeoutError"} THEN "Network Timeout"
    ELSE IF exc = "aiohttp.ClientError" THEN "Network Error"
    ELSE IF exc = "ValueError" THEN "Parser Error"
    ELSE "Unexpected Error"

\* C28: a task whose parse calls all failed with timeouts, transport errors or
\* other retryable failures, in any mix, and which has made max_retries calls,
\* is finished with one error of the kind of its last failure; a ValueError on
\* the n-th call finishes the task at that call with 'Parser Error', whatever
\* the failures before it.
C28_LastAttemptKind ==
    (Watching /\ max_retries >= 1 /\ hist # <<>>)
    => /\ (AllOf(hist, ExceptionClasses \ {"ValueError"}) /\ Len(hist) = max_retries)
          => Failed(watched, ClaimedKind(hist[Len(hist)]))
       /\ hist[Len(hist)] = "ValueError"
          => /\ Failed(watched, "Parser Error")
             /\ Len(hist) <= max_retries
             /\ AllOf(SubSeq(hist, 1, Len(hist) - 1), ExceptionClasses \ {"ValueError"})

\* A timeout, then a transport error, then another failure: 'Unexpected Error'.
C28_Witness ==
    /\ Watching
    /\ max_retries = 3
    /\ hist = <<"asyncio.TimeoutError", "aiohttp.ClientError", "RuntimeError">>
    /\ Failed(watched, "Unexpected Error")

\* An error of self.errors is owned by the source of task i.
HasErrorFor(i) == \E k \in 1..Len(get_errors) : get_errors[k].brewery = breweries[i]

\* C29 (as claimed): after scrape_all, for every max_retries including 0, each
\* source whose parse call never returned has an error in get_errors(). With
\* max_retries = 0 parse is never called, so this is every source of the call.
C29_EverySourceAccountedFor ==
    AfterScrapeAll =>
      \A i \in Tasks : (max_retries = 0 \/ TaskFailed(i)) => HasErrorFor(i)

\* C30: a finished task has returned no events or no error, and once a call
\* has returned, no event of its result is owned by a source that has an error
\* in get_errors().
C30_EventsXorError ==
    /\ \A i \in Tasks :
         result[i].kind = "return" => (result[i].error = None \/ result[i].events = <<>>)
    /\ (phase = "idle" /\ returned.outcome = "returned")
       => \A k \in 1..Len(returned.events) :
            \A j \in 1..Len(get_errors) :
              returned.events[k].brewery_key # get_errors[j].brewery.key

\* scrape_all has returned the events of its first source and recorded the
\* error its second source returned.
C30_Witness ==
    /\ AfterScrapeAll
    /\ Len(breweries) = 2
    /\ result[1].kind = "return" /\ result[1].error = None
    /\ result[2].kind = "return" /\ result[2].error # None
    /\ Len(returned.events) = 2
    /\ \A k \in 1..2 : returned.events[k].brewery_key = breweries[1].key
    /\ get_errors = <<Val(result[2].error)>>

\* The page of three events, one of them past the window, as source b returns it.
ThreeEvents(b) == CHOOSE page \in Pages(b) : Len(page) = 3

\* Two sources: the parser of the first returned three events, every parse call
\* of the second raised a transport error and the second has given up.
RoundTrip ==
    /\ phase = "scrape_all"
    /\ Len(breweries) = 2
    /\ result[1] = TaskReturn(ThreeEvents(breweries[1]), None)
    /\ watched = 2
    /\ hist # <<>>
    /\ AllOf(hist, {"aiohttp.ClientError"})
    /\ Terminal(2)

\* C24: when scrape_all returns in that situation, it returns exactly the two
\* events of the first source that lie inside the window, the earlier one
\* first, and get_errors() is exactly one 'Network Error' of the second source.
C24_RoundTrip ==
    [][ (RoundTrip /\ phase' = "idle")
        => /\ returned'.outcome = "returned"
           /\ returned'.events = << ThreeEvents(breweries[1])[3], ThreeEvents(breweries[1])[1] >>
           /\ get_errors' = << ScrapingError(breweries[2], "Network Error") >> ]_vars

\* The call of that situation has returned its two events and its one error.
C24_Witness ==
    /\ AfterScrapeAll
    /\ Len(breweries) = 2
    /\ result[1] = TaskReturn(ThreeEvents(breweries[1]), None)
    /\ result[2] = TaskReturn(<<>>, Some(ScrapingError(breweries[2], "Network Error")))
    /\ Len(returned.events) = 2
    /\ returned.events[1].date < returned.events[2].date
    /\ Len(get_errors) = 1
    /\ get_errors[1].error_type = "Network Error"
    /\ get_errors[1].brewery = breweries[2]

\* The kind a failure gets when it is tested for timeout, transport error and
\* parse error in that order, and is "other" when it is none of them.
KindInOrder(exc) ==
    IF IsInstance(exc, {"asyncio.TimeoutError", "aiohttp.ServerTimeoutError"})
    THEN "Network Timeout"
    ELSE IF IsInstance(exc, {"aiohttp.ClientError"}) THEN "Network Error"
    ELSE IF IsInstance(exc, {"ValueError"}) THEN "Parser Error"
    ELSE "Unexpected Error"

\* C36: the error of a task that gave up on a failed parse call has the one
\* kind that testing the failure for timeout, transport error, parse error,
\* other, in that order, gives; for aiohttp.ServerTimeoutError, which is a
\* timeout and a transport error, that is 'Network Timeout'.
C36_TimeoutPrecedence ==
    (Watching /\ hist # <<>> /\ pc[watched] = "done" /\ hist[Len(hist)] # "ok")
    => /\ Failed(watched, KindInOrder(hist[Len(hist)]))
       /\ hist[Len(hist)] = "aiohttp.ServerTimeoutError"
          => /\ Val(result[watched].error).error_type = "Network Timeout"
             /\ Val(result[watched].error).error_type # "Network Error"

\* A task gave up on an aiohttp.ServerTimeoutError after a transport error.
C36_Witness ==
    /\ Watching
    /\ max_retries = 2
    /\ hist = <<"aiohttp.ClientError", "aiohttp.ServerTimeoutError">>
    /\ Failed(watched, "Network Timeout")

RECURSIVE SumOf(_)
SumOf(seq) == IF seq = <<>> THEN 0 ELSE seq[1] + SumOf(Tail(seq))

\* C35: a task sleeps only after a retryable failure of a parse call that is
\* not its last: never before its first call, and a finished task has slept
\* once less than it made calls, so not after a success, a parse error, its
\* max_retries-th failure or a failed lookup; each wait is twice the one
\* before; a task that gave up after max_retries calls slept max_retries - 1
\* times, 2^(max_retries-1) - 1 seconds in all.
C35_BackoffPlacement ==
    Watching =>
      /\ Len(sleeps) <= Len(hist)
      /\ \A n \in 1..Len(sleeps) : RetryableFailure(hist[n]) /\ n < max_retries
      /\ \A n \in 2..Len(sleeps) : sleeps[n] = 2 * sleeps[n - 1]
      /\ pc[watched] \in {"lookup", "raised"} => sleeps = <<>>
      /\ (pc[watched] = "done" /\ hist # <<>>) => Len(sleeps) = Len(hist) - 1
      /\ (pc[watched] = "done" /\ hist = <<>>) => sleeps = <<>>
      /\ (pc[watched] = "done" /\ hist # <<>> /\ Len(hist) = max_retries
            /\ hist[Len(hist)] # "ok")
         => /\ Len(sleeps) = max_retries - 1
            /\ SumOf(sleeps) = Pow2(max_retries - 1) - 1

\* The default max_retries = 3: the task gave up after sleeping 1 s and 2 s.
C35_Witness ==
    /\ Watching
    /\ max_retries = 3
    /\ pc[watched] = "done"
    /\ Len(hist) = 3
    /\ sleeps = <<1, 2>>
    /\ SumOf(sleeps) = 3

\* The place in the source list of the source that owns key.
SourceIndex(key) == CHOOSE i \in Tasks : breweries[i].key = key

\* C31: whatever the order in which the tasks of scrape_all finished, the errors
\* of get_errors() are in the order of the source list, and of two returned
\* events with the same sort key the one of the earlier source comes first, an
\* earlier event of the same source first.
C31_SourceListOrder ==
    AfterScrapeAll =>
      /\ \A j \in 1..Len(get_errors) : \A k \in (j + 1)..Len(get_errors) :
           SourceIndex(get_errors[j].brewery.key) < SourceIndex(get_errors[k].brewery.key)
      /\ returned.events = _filter_and_sort_events(GatheredEvents(result, Len(result)), now)
      /\ \A j \in 1..Len(returned.events) : \A k \in (j + 1)..Len(returned.events) :
           sort_key(returned.events[j]) = sort_key(returned.events[k])
           => SourceIndex(returned.events[j].brewery_key)
                <= SourceIndex(returned.events[k].brewery_key)

\* Two sources returned the same page: four events come back, and each event of
\* the first source is followed by the second source's event of the same key.
C31_Witness ==
    /\ AfterScrapeAll
    /\ Len(breweries) = 2
    /\ Len(returned.events) = 4
    /\ returned.events[1].brewery_key = breweries[1].key
    /\ returned.events[2].brewery_key = breweries[2].key
    /\ sort_key(returned.events[1]) = sort_key(returned.events[2])

-----------------------------------------------------------------------------
(* Properties of failed fetches, under SpecFetch.                              *)

HandledBy(parser_classes) ==
    /\ Len(breweries) = 1
    /\ HasKey(registry, breweries[1].key)
    /\ GetItem(registry, breweries[1].key) \in parser_classes

EveryFetchFailed == fetches # <<>> /\ \A k \in 1..Len(fetches) : fetches[k] # "ok"

NetworkKind(fetched) ==
    IF fetched = "TimeoutError" THEN "Network Timeout" ELSE "Network Error"

\* C33 (as claimed): when scrape_all is over for a source of RouletteParser or
\* LittlefieldNYCParser whose fetch failed on every attempt, parse was called
\* max_retries times with a backoff after each call but the last, and
\* get_errors() has one error, 'Network Timeout' or 'Network Error' after the
\* last failure, not 'Parser Error'.
C33_WrappedFailuresRetried ==
    (AfterScrapeAll /\ HandledBy({"RouletteParser", "LittlefieldNYCParser"})
       /\ EveryFetchFailed)
    => /\ Len(hist) = max_retries
       /\ Len(sleeps) = max_retries - 1
       /\ Len(get_errors) = 1
       /\ get_errors[1].error_type = NetworkKind(fetches[Len(fetches)])
       /\ get_errors[1].error_type # "Parser Error"

\* C34 (as claimed): when scrape_all is over for a source of LittlefieldParser,
\* UnionHallParser or BellHouseParser of which every fetch failed, get_errors()
\* has a ScrapingError for the source; the call has not ended without an error
\* and without events after one call of parse.
C34_SwallowedFailuresReported ==
    (AfterScrapeAll /\ HandledBy({"LittlefieldParser", "UnionHallParser", "BellHouseParser"})
       /\ EveryFetchFailed)
    => /\ \E k \in 1..Len(get_errors) : get_errors[k].brewery = breweries[1]
       /\ ~(get_errors = <<>> /\ returned.events = <<>> /\ Len(hist) = 1)

-----------------------------------------------------------------------------
(* Properties of the merge of LittlefieldNYCParser.parse, under SpecMerge.     *)

Merged == phase = "parsed"

\* The key of the claim: the calendar date and the lower-cased, trimmed name.
ClaimedKey(event) ==
    <<DateOf(Val(event.date)), strip(str_lower(Val(event.artist_name)))>>

\* The events appended after the JSON-LD events.
AppendedEvents == SubSeq(returned.events, Len(all_events) + 1, Len(returned.events))

IsAppended(event) == \E p \in 1..Len(AppendedEvents) : AppendedEvents[p] = event

\* C38: _extract_from_html is called exactly when JSON-LD gave fewer than 5
\* events; the merged list begins with the JSON-LD events, all of them, in their
\* order; an HTML event is in it exactly when the HTML was parsed and neither a
\* JSON-LD event nor an earlier HTML event has its (date, lower-cased trimmed
\* name) key; and what parse returns is the valid events of that list.
C38_StructuredDataFirst ==
    Merged =>
      /\ returned.html_parsed <=> (Len(all_events) < 5)
      /\ Len(returned.events) >= Len(all_events)
      /\ SubSeq(returned.events, 1, Len(all_events)) = all_events
      /\ \A k \in 1..Len(hist) :
           IsAppended(hist[k])
           <=> /\ Len(all_events) < 5
               /\ \A j \in 1..Len(all_events) : ClaimedKey(all_events[j]) # ClaimedKey(hist[k])
               /\ \A j \in 1..(k - 1) : ClaimedKey(hist[j]) # ClaimedKey(hist[k])
      /\ \A p \in 1..Len(AppendedEvents) :
           /\ \E k \in 1..Len(hist) : hist[k] = AppendedEvents[p]
           /\ \A q \in 1..(Len(all_events) + p - 1) :
                ClaimedKey(returned.events[q]) # ClaimedKey(AppendedEvents[p])
      /\ returned.valid_events = filter_valid_events(returned.events, today)

\* One JSON-LD event; the HTML has the same act on the same day under another
\* spelling and at another time, which is dropped, and another act, which is added.
C38_Witness ==
    /\ Merged
    /\ Len(all_events) = 1
    /\ Len(hist) = 2
    /\ ClaimedKey(hist[1]) = ClaimedKey(all_events[1])
    /\ hist[1].artist_name # all_events[1].artist_name
    /\ hist[1].date # all_events[1].date
    /\ returned.events = <<all_events[1], hist[2]>>

\* Five JSON-LD events: the HTML is not parsed and its events are left out.
C38_WitnessNoHtml ==
    /\ Merged
    /\ Len(all_events) = 5
    /\ Len(hist) = 2
    /\ ~returned.html_parsed
    /\ returned.events = all_events

-----------------------------------------------------------------------------
(* Properties of two calls on one coordinator, under SpecOverlap.              *)

Position(entry) == CHOOSE k \in 1..Len(hist) : hist[k] = entry

BothReturned == \A v \in Calls : pc[v] = "returned"

\* The second call began while the first was awaiting its tasks.
Overlapped == BothReturned /\ Position(<<"call", 2>>) < Position(<<"return", 1>>)

ErrorsOfCall(v) == GatheredErrors(breweries[v], result[v], Len(result[v]))

\* C32 (as claimed): when the second call began while the first was awaiting its
\* tasks and both have returned, get_errors() is the errors of the second call
\* and has no error of a source of the first.
C32_LaterRunOwnsErrors ==
    Overlapped =>
      /\ get_errors = ErrorsOfCall(2)
      /\ \A k \in 1..Len(get_errors) : \A i \in 1..Len(breweries[1]) :
           get_errors[k].brewery # breweries[1][i]

====
